---- MODULE Spec2Model ----
(***************************************************************************)
(* CRISP-32 virtual machine core (src/src/vm/c32_vm.c): the step loop, the *)
(* interrupt controller, the MMU and the execution unit, as a state        *)
(* machine over the fields of c32_vm_t.                                    *)
(*                                                                         *)
(* A uint32_t is a pair <<hi, lo>> of 16-bit halves (value hi*65536 + lo), *)
(* because the integers of TLC are themselves 32-bit signed: every         *)
(* operation below is the C operation modulo 2^32.                         *)
(***************************************************************************)
EXTENDS Integers, Sequences, FiniteSets, TLC

\* K applied to the value of e: the statements of a C function run in
\* sequence, each on the result of the one before
Bind(e, K(_)) == CHOOSE y \in {K(v) : v \in {e}} : TRUE

(***************************************************************************)
(* uint32_t arithmetic                                                     *)
(***************************************************************************)
Half == 65536

\* the uint32_t with value n, for 0 <= n < 2^31
W(n) == <<n \div Half, n % Half>>

\* the uint32_t with halves hi and lo (a hexadecimal literal 0xHHHHLLLL)
U32(hi, lo) == <<hi, lo>>

\* the value of a uint32_t below 2^31 as an integer
Val(a) == a[1] * Half + a[2]

\* a < 2^31: Val(a) is representable
Small(a) == a[1] < 32768

Add32(a, b) ==
    LET s == a[2] + b[2]
    IN  <<(a[1] + b[1] + (s \div Half)) % Half, s % Half>>

Sub32(a, b) ==
    LET d == a[2] - b[2]
        borrow == IF d < 0 THEN 1 ELSE 0
    IN  <<(a[1] - b[1] - borrow + 2 * Half) % Half, (d + Half) % Half>>

\* unsigned comparisons
Ltu(a, b) == a[1] < b[1] \/ (a[1] = b[1] /\ a[2] < b[2])
Leu(a, b) == a = b \/ Ltu(a, b)

\* (int32_t) reinterpretation: the sign bit
Neg(a) == a[1] >= 32768

\* signed comparison of the two's-complement values
Lts(a, b) == IF Neg(a) # Neg(b) THEN Neg(a) ELSE Ltu(a, b)

Pow2(n) == IF n = 0 THEN 1 ELSE
           IF n = 1 THEN 2 ELSE
           IF n = 2 THEN 4 ELSE
           IF n = 3 THEN 8 ELSE
           IF n = 4 THEN 16 ELSE
           IF n = 5 THEN 32 ELSE
           IF n = 6 THEN 64 ELSE
           IF n = 7 THEN 128 ELSE
           IF n = 8 THEN 256 ELSE
           IF n = 9 THEN 512 ELSE
           IF n = 10 THEN 1024 ELSE
           IF n = 11 THEN 2048 ELSE
           IF n = 12 THEN 4096 ELSE
           IF n = 13 THEN 8192 ELSE
           IF n = 14 THEN 16384 ELSE
           IF n = 15 THEN 32768 ELSE 65536

\* bit i (0..15) of a 16-bit half
Bit16(x, i) == (x \div Pow2(i)) % 2

\* a bitwise operation on 16-bit halves, bit by bit: bop gives the result bit
AndBit(p, q) == p * q
OrBit(p, q)  == p + q - p * q
XorBit(p, q) == (p + q) % 2

Nibble(bop(_, _), x, y) ==
    bop(x % 2, y % 2) + 2 * bop((x \div 2) % 2, (y \div 2) % 2)
    + 4 * bop((x \div 4) % 2, (y \div 4) % 2) + 8 * bop((x \div 8) % 2, (y \div 8) % 2)

Bitwise16(bop(_, _), x, y) ==
    Nibble(bop, x % 16, y % 16) + 16 * Nibble(bop, (x \div 16) % 16, (y \div 16) % 16)
    + 256 * Nibble(bop, (x \div 256) % 16, (y \div 256) % 16)
    + 4096 * Nibble(bop, x \div 4096, y \div 4096)

And32(a, b) == <<Bitwise16(AndBit, a[1], b[1]), Bitwise16(AndBit, a[2], b[2])>>
Or32(a, b)  == <<Bitwise16(OrBit, a[1], b[1]), Bitwise16(OrBit, a[2], b[2])>>
Xor32(a, b) == <<Bitwise16(XorBit, a[1], b[1]), Bitwise16(XorBit, a[2], b[2])>>
Not32(a)    == <<65535 - a[1], 65535 - a[2]>>

\* a << s and a >> s for 0 <= s <= 31, modulo 2^32
Shl32(a, s) ==
    IF s < 16
    THEN LET l == a[2] * Pow2(s)
         IN  <<(((a[1] * Pow2(s)) % Half) + (l \div Half)) % Half, l % Half>>
    ELSE <<(a[2] * Pow2(s - 16)) % Half, 0>>

Shr32(a, s) ==
    IF s < 16
    THEN <<a[1] \div Pow2(s), (a[2] \div Pow2(s)) + ((a[1] % Pow2(s)) * Pow2(16 - s))>>
    ELSE <<0, a[1] \div Pow2(s - 16)>>

\* (int32_t)a >> s: arithmetic shift, the sign bit fills from the left
Sra32(a, s) ==
    IF Neg(a) THEN Not32(Shr32(Not32(a), s)) ELSE Shr32(a, s)

\* a * b modulo 2^32, from 8-bit partial products
Mul16(x, y) ==
    LET xh == x \div 256
        xl == x % 256
        yh == y \div 256
        yl == y % 256
        low == (xh * yl + xl * yh) * 256 + xl * yl
    IN  <<(xh * yh + (low \div Half)) % Half, low % Half>>

Mul32(a, b) ==
    LET p == Mul16(a[2], b[2])
        c1 == Mul16(a[1], b[2])[2]
        c2 == Mul16(a[2], b[1])[2]
    IN  <<(p[1] + c1 + c2) % Half, p[2]>>

\* unsigned a / b and a % b for b # 0.  Below 2^31 the integers divide; a
\* divisor from 2^31 up goes into a at most once; otherwise a = 2h + l with
\* h < 2^31, and h = q1*b + r1 gives a = 2*q1*b + (2*r1 + l) with 2*r1 + l < 2b.
DivMod(a, b) ==
    IF Small(a) /\ Small(b)
    THEN [q |-> W(Val(a) \div Val(b)), r |-> W(Val(a) % Val(b))]
    ELSE IF ~Small(b)
    THEN IF Leu(b, a) THEN [q |-> W(1), r |-> Sub32(a, b)] ELSE [q |-> W(0), r |-> a]
    ELSE LET h  == Val(Shr32(a, 1))
             q1 == W(h \div Val(b))
             t  == Add32(Shl32(W(h % Val(b)), 1), W(a[2] % 2))
         IN  IF Leu(b, t)
             THEN [q |-> Add32(Shl32(q1, 1), W(1)), r |-> Sub32(t, b)]
             ELSE [q |-> Shl32(q1, 1), r |-> t]

Divu32(a, b) == DivMod(a, b).q

Remu32(a, b) == DivMod(a, b).r

Neg32(a) == Sub32(W(0), a)
Abs32(a) == IF Neg(a) THEN Neg32(a) ELSE a

\* (int32_t)a / (int32_t)b and (int32_t)a % (int32_t)b, truncating toward zero
Divs32(a, b) ==
    LET q == Divu32(Abs32(a), Abs32(b))
    IN  IF Neg(a) # Neg(b) THEN Neg32(q) ELSE q

Rems32(a, b) ==
    LET r == Remu32(Abs32(a), Abs32(b))
    IN  IF Neg(a) THEN Neg32(r) ELSE r

(***************************************************************************)
(* Opcodes (include/c32_opcodes.h)                                         *)
(***************************************************************************)
OP_NOP == 0
OP_ADD == 1
OP_ADDU == 2
OP_SUB == 3
OP_SUBU == 4
OP_ADDI == 5
OP_ADDIU == 6
OP_MUL == 64
OP_MULH == 65
OP_MULHU == 66
OP_DIV == 67
OP_DIVU == 68
OP_REM == 69
OP_REMU == 70
OP_AND == 16
OP_OR == 17
OP_XOR == 18
OP_NOR == 19
OP_ANDI == 20
OP_ORI == 21
OP_XORI == 22
OP_LUI == 23
OP_SLL == 32
OP_SRL == 33
OP_SRA == 34
OP_SLLV == 35
OP_SRLV == 36
OP_SRAV == 37
OP_SLT == 48
OP_SLTU == 49
OP_SLTI == 50
OP_SLTIU == 51
OP_LW == 80
OP_LH == 81
OP_LHU == 82
OP_LB == 83
OP_LBU == 84
OP_SW == 88
OP_SH == 89
OP_SB == 90
OP_BEQ == 96
OP_BNE == 97
OP_BLEZ == 98
OP_BGTZ == 99
OP_BLTZ == 100
OP_BGEZ == 101
OP_J == 112
OP_JAL == 113
OP_JR == 114
OP_JALR == 115
OP_SYSCALL == 240
OP_BREAK == 241
OP_EI == 242
OP_DI == 243
OP_IRET == 244
OP_RAISE == 245
OP_GETPC == 246
OP_ENABLE_PAGING == 247
OP_DISABLE_PAGING == 248
OP_SET_PTBR == 249
OP_ENTER_USER == 251
OP_GETMODE == 252

(***************************************************************************)
(* Guest memory.  The buffer is MemSize bytes, zero-filled by the host     *)
(* (a static array); `memory` holds the non-zero bytes by offset.          *)
(***************************************************************************)
MemSize == 65536

MemorySize == W(MemSize)

\* the fault sentinel of translate_address
FAULT == U32(65535, 65535)

ReadByte(m, a) == IF a \in DOMAIN m THEN m[a] ELSE 0

\* memcpy of the bytes bs to offset a
StoreBytes(m, a, bs) ==
    LET region == a .. (a + Len(bs) - 1)
        f      == [x \in region |-> bs[x - a + 1]] @@ m
        dom    == {x \in DOMAIN f : f[x] # 0}
    IN  [x \in dom |-> f[x]]

c32_read_word(m, a) ==
    <<ReadByte(m, a + 2) + 256 * ReadByte(m, a + 3), ReadByte(m, a) + 256 * ReadByte(m, a + 1)>>

c32_read_half(m, a) == ReadByte(m, a) + 256 * ReadByte(m, a + 1)

c32_read_byte(m, a) == ReadByte(m, a)

c32_write_word(m, a, v) ==
    StoreBytes(m, a, <<v[2] % 256, v[2] \div 256, v[1] % 256, v[1] \div 256>>)

c32_write_half(m, a, h) == StoreBytes(m, a, <<h % 256, h \div 256>>)

c32_write_byte(m, a, b) == StoreBytes(m, a, <<b>>)

\* the n bytes at offset addr really lie inside the buffer
InBounds(addr, n) == Small(addr) /\ Val(addr) <= MemSize - n

\* the C test `addr + n <= vm->memory_size`, evaluated in uint32_t
Fits(addr, n) == Leu(Add32(addr, W(n)), MemorySize)

(***************************************************************************)
(* What one API call did, kept for the properties: `ev`.                   *)
(*   call      the API function that ran                                   *)
(*   run       the call was made by the loop of c32_vm_run                 *)
(*   ret       its return value (c32_vm_step: 0 or -1)                     *)
(*   disp      the interrupt check_interrupts dispatched, or -1           *)
(*   exec      an instruction was fetched and executed                     *)
(*   inst      the 8 bytes fetched                                         *)
(*   fetch_pc  the PC the alignment test of the step saw                   *)
(*   raised    the interrupts raised during the call                       *)
(*   km_exec   kernel_mode after check_interrupts: the mode of the fetch   *)
(*             and of the instruction                                     *)
(*   xl        the translations asked: [vaddr, w, x, phys]                 *)
(*   acc       the memory accesses made: [phys, n, kind]                   *)
(*   ub        the undefined behaviour met (out-of-range accesses)         *)
(***************************************************************************)
NoInst == <<0, 0, 0, 0, 0, 0, 0, 0>>

EvOf(call) ==
    [call |-> call, run |-> FALSE, ret |-> 0, disp |-> -1, exec |-> FALSE, inst |-> NoInst,
     fetch_pc |-> W(0), raised |-> {}, km_exec |-> TRUE, xl |-> {}, acc |-> {},
     ub |-> {}]

(***************************************************************************)
(* c32_vm_init, c32_vm_reset                                               *)
(***************************************************************************)
c32_vm_init(memory) ==
    [regs |-> [i \in 0..31 |-> W(0)],
     pc |-> W(0),
     memory |-> memory,
     running |-> FALSE,
     kernel_mode |-> TRUE,
     paging_enabled |-> FALSE,
     page_table_base |-> W(0),
     num_pages |-> W(0),
     enabled |-> FALSE,
     pending |-> {},
     saved_pc |-> W(0),
     saved_regs_addr |-> W(0)]

c32_vm_reset(vm) ==
    [vm EXCEPT !.regs = [i \in 0..31 |-> W(0)],
               !.pc = W(0),
               !.running = FALSE,
               !.kernel_mode = TRUE,
               !.paging_enabled = FALSE]

(***************************************************************************)
(* c32_raise_interrupt, c32_set_interrupt_handler.  `pending` is the set   *)
(* of the bits set in the 32-byte bitmap: bit int_num % 8 of byte          *)
(* int_num / 8.  A context c is [vm, ev].                                  *)
(***************************************************************************)
\* faulty variant, on which the property below must fail: the bit is inverted
c32_raise_interrupt_Toggling(c, int_num) ==
    IF int_num \div 8 < 32
    THEN [c EXCEPT !.vm.pending = IF int_num \in @ THEN @ \ {int_num} ELSE @ \cup {int_num},
                   !.ev.raised = @ \cup {int_num}]
    ELSE c

c32_raise_interrupt(c, int_num) ==
    IF int_num \div 8 < 32
    THEN [c EXCEPT !.vm.pending = @ \cup {int_num}, !.ev.raised = @ \cup {int_num}]
    ELSE c

c32_set_interrupt_handler(vm, int_num, handler_addr) ==
    LET ivt_offset == W(int_num * 8)
    IN  IF Fits(ivt_offset, 4)
        THEN [vm EXCEPT !.memory = c32_write_word(@, Val(ivt_offset), handler_addr)]
        ELSE vm

(***************************************************************************)
(* check_interrupts.  g is what undefined behaviour yields in this call:   *)
(* g.word the value an out-of-bounds read returns, g.alias whether         *)
(* regs[32] is the word after the array (pc).                              *)
(***************************************************************************)
\* faulty variant, on which the property below must fail: the scan runs downwards
Lowest_Reversed(S) == CHOOSE n \in S : \A k \in S : n >= k

\* the first int_num the ascending scan finds set
Lowest(S) == CHOOSE n \in S : \A k \in S : n <= k

\* faulty variant, on which the property below must fail: the scan visits all
\* 256 bits
Scanned_All(pending) == pending

\* the pending bits the scan `for (int_num = 0; int_num < 255; int_num++)` visits
Scanned(pending) == {n \in pending : n < 255}

\* the 128 bytes the 32 c32_write_word calls store: regs[i] little-endian at 4*i
RegBytes(regs) ==
    [k \in 1..128 |->
        LET r == regs[(k - 1) \div 4]
            j == (k - 1) % 4
        IN  IF j = 0 THEN r[2] % 256
            ELSE IF j = 1 THEN r[2] \div 256
            ELSE IF j = 2 THEN r[1] % 256 ELSE r[1] \div 256]

\* the loop of 32 c32_write_word calls at saved_regs_addr
SaveRegs(c) ==
    IF InBounds(c.vm.saved_regs_addr, 128)
    THEN [c EXCEPT !.vm.memory = StoreBytes(@, Val(c.vm.saved_regs_addr), RegBytes(c.vm.regs)),
                   !.ev.acc = @ \cup {[phys |-> c.vm.saved_regs_addr, n |-> 128,
                                       kind |-> "save"]}]
    ELSE [c EXCEPT !.ev.ub = @ \cup {"oobwrite"},
                   !.ev.acc = @ \cup {[phys |-> c.vm.saved_regs_addr, n |-> 128,
                                       kind |-> "save"]}]

\* faulty variant, on which the property below must fail: the dispatch leaves the mode alone
DispatchEnter_KeepMode(c, int_num) ==
    [c EXCEPT !.vm.pending = @ \ {int_num},
              !.vm.saved_pc = c.vm.pc,
              !.vm.regs[29] = Sub32(@, W(128)),
              !.vm.saved_regs_addr = Sub32(c.vm.regs[29], W(128)),
              !.ev.disp = int_num]

\* faulty variant, on which the property below must fail: a dispatch inside a
\* handler keeps the saved_pc of the dispatch that entered the handler
DispatchEnter_KeepOuter(c, int_num) ==
    [c EXCEPT !.vm.pending = @ \ {int_num},
              !.vm.saved_pc = IF c.vm.saved_pc = W(0) THEN c.vm.pc ELSE @,
              !.vm.kernel_mode = TRUE,
              !.vm.regs[29] = Sub32(@, W(128)),
              !.vm.saved_regs_addr = Sub32(c.vm.regs[29], W(128)),
              !.ev.disp = int_num]

\* the body of `if (vm->interrupts.pending[...] & ...)`: the statements up to
\* the register save, the save, and the rest
DispatchEnter(c, int_num) ==
    [c EXCEPT !.vm.pending = @ \ {int_num},
              !.vm.saved_pc = c.vm.pc,
              !.vm.kernel_mode = TRUE,
              !.vm.regs[29] = Sub32(@, W(128)),
              !.vm.saved_regs_addr = Sub32(c.vm.regs[29], W(128)),
              !.ev.disp = int_num]

DispatchSave(c) == IF Fits(c.vm.saved_regs_addr, 128) THEN SaveRegs(c) ELSE c

\* faulty variant, on which the property below must fail: the vector table is
\* read with entries of 4 bytes
DispatchJump_Stride4(c, int_num) ==
    IF Fits(W(int_num * 8), 4)
    THEN [c |-> [c EXCEPT !.vm.enabled = FALSE,
                          !.vm.regs[4] = W(int_num),
                          !.vm.pc = c32_read_word(c.vm.memory, int_num * 4)],
          ret |-> 1]
    ELSE [c |-> [c EXCEPT !.vm.enabled = FALSE,
                          !.vm.regs[4] = W(int_num),
                          !.vm.running = FALSE],
          ret |-> -1]

DispatchJump(c, int_num) ==
    IF Fits(W(int_num * 8), 4)
    THEN [c |-> [c EXCEPT !.vm.enabled = FALSE,
                          !.vm.regs[4] = W(int_num),
                          !.vm.pc = c32_read_word(c.vm.memory, int_num * 8)],
          ret |-> 1]
    ELSE [c |-> [c EXCEPT !.vm.enabled = FALSE,
                          !.vm.regs[4] = W(int_num),
                          !.vm.running = FALSE],
          ret |-> -1]

\* faulty variant, on which the property below must fail: R4 receives the
\* interrupt number before the registers are saved
Dispatch_R4BeforeSave(c, int_num) ==
    Bind(DispatchEnter(c, int_num), LAMBDA c1 :
    Bind(DispatchSave([c1 EXCEPT !.vm.regs[4] = W(int_num)]), LAMBDA c2 :
         DispatchJump(c2, int_num)))

Dispatch(c, int_num) ==
    Bind(DispatchEnter(c, int_num), LAMBDA c1 :
    Bind(DispatchSave(c1), LAMBDA c2 : DispatchJump(c2, int_num)))

\* faulty variant, on which the property below must fail: the enabled flag is not tested
check_interrupts_Unmasked(c) ==
    IF Scanned(c.vm.pending) = {} THEN [c |-> c, ret |-> 0]
    ELSE Dispatch(c, Lowest(Scanned(c.vm.pending)))

\* faulty variant, on which the property below must fail: nothing is ever dispatched
check_interrupts_Never(c) == [c |-> c, ret |-> 0]

check_interrupts(c) ==
    IF ~c.vm.enabled THEN [c |-> c, ret |-> 0]
    ELSE IF Scanned(c.vm.pending) = {} THEN [c |-> c, ret |-> 0]
    ELSE Dispatch(c, Lowest(Scanned(c.vm.pending)))

(***************************************************************************)
(* translate_address                                                       *)
(***************************************************************************)
PageFault(c, vaddr, is_write, is_exec) ==
    LET c1 == c32_raise_interrupt(c, 8)
    IN  [c |-> [c1 EXCEPT !.ev.xl = @ \cup {[vaddr |-> vaddr, w |-> is_write,
                                             x |-> is_exec, phys |-> FAULT]}],
         phys |-> FAULT]

\* faulty variant, on which the property below must fail: the result is reduced into the memory
Translated_Reduced(c, vaddr, is_write, is_exec, phys) ==
    [c |-> [c EXCEPT !.ev.xl = @ \cup {[vaddr |-> vaddr, w |-> is_write,
                                        x |-> is_exec, phys |-> <<0, phys[2]>>]}],
     phys |-> <<0, phys[2]>>]

\* return of a translated address
Translated(c, vaddr, is_write, is_exec, phys) ==
    [c |-> [c EXCEPT !.ev.xl = @ \cup {[vaddr |-> vaddr, w |-> is_write,
                                        x |-> is_exec, phys |-> phys]}],
     phys |-> phys]

\* c32_read_word(vm->memory + pte_addr), after the bounds test passed
ReadPTE(c, pte_addr, g) ==
    IF InBounds(pte_addr, 4) THEN c32_read_word(c.vm.memory, Val(pte_addr)) ELSE g.word

\* the bounds test on the PTE and the permission checks
CheckPTE(c, vaddr, is_write, is_exec, g, page_num, pte_addr, pte) ==
    LET page_offset == And32(vaddr, U32(0, 4095))
        phys_page   == And32(pte, U32(65535, 61440))
        user        == Bit16(pte[2], 3)
        executable  == Bit16(pte[2], 2)
        writable    == Bit16(pte[2], 1)
        valid       == Bit16(pte[2], 0)
        cu          == IF InBounds(pte_addr, 4) THEN c
                       ELSE [c EXCEPT !.ev.ub = @ \cup {"oobread"}]
    IN  IF ~Ltu(page_num, c.vm.num_pages) THEN PageFault(c, vaddr, is_write, is_exec)
        ELSE IF Ltu(MemorySize, Add32(pte_addr, W(4)))
             THEN PageFault(c, vaddr, is_write, is_exec)
        ELSE IF valid = 0 THEN PageFault(cu, vaddr, is_write, is_exec)
        ELSE IF user = 0 THEN PageFault(cu, vaddr, is_write, is_exec)
        ELSE IF is_write /\ writable = 0 THEN PageFault(cu, vaddr, is_write, is_exec)
        ELSE IF is_exec /\ executable = 0 THEN PageFault(cu, vaddr, is_write, is_exec)
        ELSE Translated(cu, vaddr, is_write, is_exec, Or32(phys_page, page_offset))

translate_address(c, vaddr, is_write, is_exec, g) ==
    IF c.vm.kernel_mode THEN Translated(c, vaddr, is_write, is_exec, vaddr)
    ELSE IF ~c.vm.paging_enabled THEN Translated(c, vaddr, is_write, is_exec, vaddr)
    ELSE Bind(Shr32(vaddr, 12), LAMBDA page_num :
         Bind(Add32(c.vm.page_table_base, Shl32(page_num, 2)), LAMBDA pte_addr :
         Bind(ReadPTE(c, pte_addr, g), LAMBDA pte :
              CheckPTE(c, vaddr, is_write, is_exec, g, page_num, pte_addr, pte))))

(***************************************************************************)
(* The register file.  An index byte above 31 is outside regs[32]: the     *)
(* access is undefined behaviour.  When g.alias the access lands on the    *)
(* member of c32_vm_t at that offset (regs is the first member; 8-byte     *)
(* pointers): index 32 is pc, index 38 the bytes kernel_mode,              *)
(* paging_enabled and two of padding.  Otherwise a read yields g.word and  *)
(* a write changes nothing the model holds.                                *)
(***************************************************************************)
FlagByte(b) == IF b THEN 1 ELSE 0

Reg(c, i, g) ==
    IF i < 32 THEN c.vm.regs[i]
    ELSE IF i = 32 /\ g.alias THEN c.vm.pc
    ELSE IF i = 38 /\ g.alias
         THEN U32(0, FlagByte(c.vm.kernel_mode) + 256 * FlagByte(c.vm.paging_enabled))
    ELSE g.word

SetReg(c, i, v, g) ==
    IF i < 32 THEN [c EXCEPT !.vm.regs[i] = v]
    ELSE IF i = 32 /\ g.alias THEN [c EXCEPT !.vm.pc = v]
    ELSE IF i = 38 /\ g.alias
         THEN [c EXCEPT !.vm.kernel_mode = v[2] % 256 # 0,
                        !.vm.paging_enabled = (v[2] \div 256) % 256 # 0]
    ELSE c

OpsRsRtRd ==
    {OP_ADD, OP_ADDU, OP_SUB, OP_SUBU, OP_AND, OP_OR, OP_XOR, OP_NOR, OP_SLT, OP_SLTU,
     OP_MUL, OP_MULH, OP_DIV, OP_DIVU, OP_REM, OP_REMU, OP_SLLV, OP_SRLV, OP_SRAV}

OpsRsRt ==
    {OP_ADDI, OP_ADDIU, OP_ANDI, OP_ORI, OP_XORI, OP_SLTI, OP_SLTIU,
     OP_LW, OP_LH, OP_LHU, OP_LB, OP_LBU, OP_SW, OP_SH, OP_SB, OP_BEQ, OP_BNE}

\* the register index bytes the case of `opcode` uses
UsedRegs(opcode, rs, rt, rd, kernel_mode) ==
    IF opcode \in OpsRsRtRd THEN {rs, rt, rd}
    ELSE IF opcode \in OpsRsRt THEN {rs, rt}
    ELSE IF opcode \in {OP_SLL, OP_SRL, OP_SRA} THEN {rt, rd}
    ELSE IF opcode = OP_LUI THEN {rt}
    ELSE IF opcode \in {OP_BLEZ, OP_BGTZ, OP_BLTZ, OP_BGEZ, OP_JR} THEN {rs}
    ELSE IF opcode = OP_JALR THEN {rs, rd}
    ELSE IF opcode \in {OP_MULHU, OP_GETPC, OP_GETMODE} THEN {rd}
    ELSE IF opcode = OP_SET_PTBR /\ kernel_mode THEN {rd, rt}
    ELSE {}

\* signed overflow of (int32_t)a + (int32_t)b and of (int32_t)a - (int32_t)b
AddOverflows(a, b) == Neg(a) = Neg(b) /\ Neg(Add32(a, b)) # Neg(a)
SubOverflows(a, b) == Neg(a) # Neg(b) /\ Neg(Sub32(a, b)) # Neg(a)
\* INT_MIN / -1
DivOverflows(a, b) == a = U32(32768, 0) /\ b = U32(65535, 65535)

Flag(c, cond, what) == IF cond THEN [c EXCEPT !.ev.ub = @ \cup {what}] ELSE c

\* (int32_t)(int16_t)h and (int32_t)(int8_t)b
SignExtend16(h) == IF h >= 32768 THEN <<65535, h>> ELSE <<0, h>>
SignExtend8(b) == IF b >= 128 THEN <<65535, 65280 + b>> ELSE <<0, b>>

Bool32(b) == IF b THEN W(1) ELSE W(0)

(***************************************************************************)
(* Loads and stores: the cases OP_LW .. OP_SB of c32_vm_step               *)
(***************************************************************************)
Width(opcode) ==
    IF opcode \in {OP_LW, OP_SW} THEN 4
    ELSE IF opcode \in {OP_LH, OP_LHU, OP_SH} THEN 2 ELSE 1

\* faulty variant, on which the property below must fail: LH and LB extend with zeros
Loaded_ZeroExtending(opcode, m, a) ==
    IF opcode = OP_LW THEN c32_read_word(m, a)
    ELSE IF opcode \in {OP_LH, OP_LHU} THEN <<0, c32_read_half(m, a)>>
    ELSE <<0, c32_read_byte(m, a)>>

\* the value a load case assigns to rt
Loaded(opcode, m, a) ==
    IF opcode = OP_LW THEN c32_read_word(m, a)
    ELSE IF opcode = OP_LH THEN SignExtend16(c32_read_half(m, a))
    ELSE IF opcode = OP_LHU THEN <<0, c32_read_half(m, a)>>
    ELSE IF opcode = OP_LB THEN SignExtend8(c32_read_byte(m, a))
    ELSE <<0, c32_read_byte(m, a)>>

Access(c, phys, n, kind) ==
    [c EXCEPT !.ev.acc = @ \cup {[phys |-> phys, n |-> n, kind |-> kind]}]

\* faulty variant, on which the property below must fail: a load that is not made clears rt
LoadAt_ClearingRt(t, opcode, rt, g) ==
    IF t.phys # FAULT /\ Fits(t.phys, Width(opcode))
    THEN IF InBounds(t.phys, Width(opcode))
         THEN SetReg(Access(t.c, t.phys, Width(opcode), "load"), rt,
                     Loaded(opcode, t.c.vm.memory, Val(t.phys)), g)
         ELSE SetReg(Flag(Access(t.c, t.phys, Width(opcode), "load"), TRUE, "oobread"),
                     rt, g.word, g)
    ELSE SetReg(t.c, rt, W(0), g)

\* the load after translate_address returned t
LoadAt(t, opcode, rt, g) ==
    IF t.phys # FAULT /\ Fits(t.phys, Width(opcode))
    THEN IF InBounds(t.phys, Width(opcode))
         THEN SetReg(Access(t.c, t.phys, Width(opcode), "load"), rt,
                     Loaded(opcode, t.c.vm.memory, Val(t.phys)), g)
         ELSE SetReg(Flag(Access(t.c, t.phys, Width(opcode), "load"), TRUE, "oobread"),
                     rt, g.word, g)
    ELSE t.c

Load(c, opcode, rs, rt, imm, g) ==
    Bind(translate_address(c, Add32(Reg(c, rs, g), imm), FALSE, FALSE, g),
         LAMBDA t : LoadAt(t, opcode, rt, g))

Stored(opcode, m, a, v) ==
    IF opcode = OP_SW THEN c32_write_word(m, a, v)
    ELSE IF opcode = OP_SH THEN c32_write_half(m, a, v[2])
    ELSE c32_write_byte(m, a, v[2] % 256)

\* the store of the register value v after translate_address returned t
StoreAt(t, opcode, v) ==
    IF t.phys # FAULT /\ Fits(t.phys, Width(opcode))
    THEN IF InBounds(t.phys, Width(opcode))
         THEN [Access(t.c, t.phys, Width(opcode), "store")
                  EXCEPT !.vm.memory = Stored(opcode, @, Val(t.phys), v)]
         ELSE Flag(Access(t.c, t.phys, Width(opcode), "store"), TRUE, "oobwrite")
    ELSE t.c

Store(c, opcode, rs, rt, imm, g) ==
    Bind(translate_address(c, Add32(Reg(c, rs, g), imm), TRUE, FALSE, g),
         LAMBDA t : StoreAt(t, opcode, Reg(c, rt, g)))

(***************************************************************************)
(* IRET and the privileged cases                                           *)
(***************************************************************************)
\* faulty variant, on which the property below must fail: the violation also halts the VM
Privilege_Halting(c) == [c32_raise_interrupt(c, 7) EXCEPT !.vm.running = FALSE]

\* c32_raise_interrupt(vm, 7); break
Privilege(c) == c32_raise_interrupt(c, 7)

\* faulty variant, on which the property below must fail: DI inverts `enabled`
Di_Toggling(c) == [c EXCEPT !.vm.enabled = ~@]

\* OP_DI in kernel mode
Di(c) == [c EXCEPT !.vm.enabled = FALSE]

\* faulty variant, on which the property below must fail: a page table that
\* does not lie inside memory is refused
SetPtbr_Checked(c, base, n) ==
    IF Small(base) /\ Small(n) /\ Val(base) + 4 * Val(n) <= MemSize
    THEN [c EXCEPT !.vm.page_table_base = base, !.vm.num_pages = n]
    ELSE c

\* OP_SET_PTBR in kernel mode: the two assignments, no test of the values
SetPtbr(c, base, n) == [c EXCEPT !.vm.page_table_base = base, !.vm.num_pages = n]

\* the loop of 32 c32_read_word calls at saved_regs_addr
RestoreRegs(c, g) ==
    IF InBounds(c.vm.saved_regs_addr, 128)
    THEN [c EXCEPT !.vm.regs = [i \in 0..31 |->
                       c32_read_word(c.vm.memory, Val(c.vm.saved_regs_addr) + 4 * i)],
                   !.ev.acc = @ \cup {[phys |-> c.vm.saved_regs_addr, n |-> 128,
                                       kind |-> "restore"]}]
    ELSE [c EXCEPT !.vm.regs = [i \in 0..31 |-> g.word],
                   !.ev.acc = @ \cup {[phys |-> c.vm.saved_regs_addr, n |-> 128,
                                       kind |-> "restore"]},
                   !.ev.ub = @ \cup {"oobread"}]

\* faulty variant, on which the property below must fail: IRET returns to user mode
Iret_ReturnsToUser(c, g) ==
    IF Fits(c.vm.saved_regs_addr, 128)
    THEN [RestoreRegs(c, g) EXCEPT !.vm.pc = c.vm.saved_pc, !.vm.enabled = TRUE,
                                   !.vm.kernel_mode = FALSE]
    ELSE [c EXCEPT !.vm.pc = c.vm.saved_pc, !.vm.enabled = TRUE, !.vm.kernel_mode = FALSE]

\* the kernel-mode branch of the IRET case
Iret(c, g) ==
    IF Fits(c.vm.saved_regs_addr, 128)
    THEN [RestoreRegs(c, g) EXCEPT !.vm.pc = c.vm.saved_pc, !.vm.enabled = TRUE]
    ELSE [c EXCEPT !.vm.pc = c.vm.saved_pc, !.vm.enabled = TRUE]

Branch(c, taken, imm) == IF taken THEN [c EXCEPT !.vm.pc = Add32(@, imm)] ELSE c

\* faulty variant, on which the property below must fail: the interrupt is raised, the VM runs on
Halt_KeepRunning(c, int_num) == c32_raise_interrupt(c, int_num)

\* faulty variant, on which the property below must fail: the VM halts, nothing is raised
Halt_NoRaise(c, int_num) == [c EXCEPT !.vm.running = FALSE]

\* c32_raise_interrupt(vm, int_num); vm->running = 0
Halt(c, int_num) == [c32_raise_interrupt(c, int_num) EXCEPT !.vm.running = FALSE]

(***************************************************************************)
(* The switch of c32_vm_step; c.vm.pc is already advanced by 8.            *)
(***************************************************************************)
\* faulty variant, on which the property below must fail: a zero divisor traps
DivideByZero_Trapping(c, rd, g) == c32_raise_interrupt(c, 0)

\* the else branch of DIV, DIVU, REM, REMU: vm->regs[rd] = 0
DivideByZero(c, rd, g) == SetReg(c, rd, W(0), g)

Execute(c, opcode, rs, rt, rd, imm, g) ==
    LET RS == Reg(c, rs, g)
        RT == Reg(c, rt, g)
        km == c.vm.kernel_mode
    IN
    CASE opcode = OP_NOP -> c
      [] opcode = OP_ADD -> SetReg(Flag(c, AddOverflows(RS, RT), "overflow"), rd, Add32(RS, RT), g)
      [] opcode = OP_ADDU -> SetReg(c, rd, Add32(RS, RT), g)
      [] opcode = OP_SUB -> SetReg(Flag(c, SubOverflows(RS, RT), "overflow"), rd, Sub32(RS, RT), g)
      [] opcode = OP_SUBU -> SetReg(c, rd, Sub32(RS, RT), g)
      [] opcode = OP_ADDI -> SetReg(Flag(c, AddOverflows(RS, imm), "overflow"), rt, Add32(RS, imm), g)
      [] opcode = OP_ADDIU -> SetReg(c, rt, Add32(RS, imm), g)
      [] opcode = OP_AND -> SetReg(c, rd, And32(RS, RT), g)
      [] opcode = OP_OR -> SetReg(c, rd, Or32(RS, RT), g)
      [] opcode = OP_XOR -> SetReg(c, rd, Xor32(RS, RT), g)
      [] opcode = OP_NOR -> SetReg(c, rd, Not32(Or32(RS, RT)), g)
      [] opcode = OP_ANDI -> SetReg(c, rt, And32(RS, imm), g)
      [] opcode = OP_ORI -> SetReg(c, rt, Or32(RS, imm), g)
      [] opcode = OP_XORI -> SetReg(c, rt, Xor32(RS, imm), g)
      [] opcode = OP_LUI -> SetReg(c, rt, Shl32(imm, 16), g)
      [] opcode = OP_SLL -> SetReg(c, rd, Shl32(RT, imm[2] % 32), g)
      [] opcode = OP_SRL -> SetReg(c, rd, Shr32(RT, imm[2] % 32), g)
      [] opcode = OP_SRA -> SetReg(c, rd, Sra32(RT, imm[2] % 32), g)
      [] opcode = OP_SLLV -> SetReg(c, rd, Shl32(RT, RS[2] % 32), g)
      [] opcode = OP_SRLV -> SetReg(c, rd, Shr32(RT, RS[2] % 32), g)
      [] opcode = OP_SRAV -> SetReg(c, rd, Sra32(RT, RS[2] % 32), g)
      [] opcode = OP_SLT -> SetReg(c, rd, Bool32(Lts(RS, RT)), g)
      [] opcode = OP_SLTU -> SetReg(c, rd, Bool32(Ltu(RS, RT)), g)
      [] opcode = OP_SLTI -> SetReg(c, rt, Bool32(Lts(RS, imm)), g)
      [] opcode = OP_SLTIU -> SetReg(c, rt, Bool32(Ltu(RS, imm)), g)
      [] opcode = OP_MUL -> SetReg(c, rd, Mul32(RS, RT), g)
      [] opcode = OP_MULH -> SetReg(c, rd, W(0), g)
      [] opcode = OP_MULHU -> SetReg(c, rd, W(0), g)
      [] opcode = OP_DIV ->
            IF RT # W(0)
            THEN SetReg(Flag(c, DivOverflows(RS, RT), "overflow"), rd, Divs32(RS, RT), g)
            ELSE DivideByZero(c, rd, g)
      [] opcode = OP_DIVU ->
            IF RT # W(0) THEN SetReg(c, rd, Divu32(RS, RT), g) ELSE DivideByZero(c, rd, g)
      [] opcode = OP_REM ->
            IF RT # W(0)
            THEN SetReg(Flag(c, DivOverflows(RS, RT), "overflow"), rd, Rems32(RS, RT), g)
            ELSE DivideByZero(c, rd, g)
      [] opcode = OP_REMU ->
            IF RT # W(0) THEN SetReg(c, rd, Remu32(RS, RT), g) ELSE DivideByZero(c, rd, g)
      [] opcode \in {OP_LW, OP_LH, OP_LHU, OP_LB, OP_LBU} -> Load(c, opcode, rs, rt, imm, g)
      [] opcode \in {OP_SW, OP_SH, OP_SB} -> Store(c, opcode, rs, rt, imm, g)
      [] opcode = OP_BEQ -> Branch(c, RS = RT, imm)
      [] opcode = OP_BNE -> Branch(c, RS # RT, imm)
      [] opcode = OP_BLEZ -> Branch(c, Neg(RS) \/ RS = W(0), imm)
      [] opcode = OP_BGTZ -> Branch(c, ~Neg(RS) /\ RS # W(0), imm)
      [] opcode = OP_BLTZ -> Branch(c, Neg(RS), imm)
      [] opcode = OP_BGEZ -> Branch(c, ~Neg(RS), imm)
      [] opcode = OP_J -> [c EXCEPT !.vm.pc = imm]
      [] opcode = OP_JAL -> [c EXCEPT !.vm.regs[31] = c.vm.pc, !.vm.pc = imm]
      [] opcode = OP_JR -> [c EXCEPT !.vm.pc = RS]
      [] opcode = OP_JALR ->
            LET c1 == SetReg(c, rd, c.vm.pc, g)
            IN  [c1 EXCEPT !.vm.pc = Reg(c1, rs, g)]
      [] opcode = OP_SYSCALL -> Halt(c, 4)
      [] opcode = OP_BREAK -> Halt(c, 5)
      [] opcode = OP_EI -> IF ~km THEN Privilege(c) ELSE [c EXCEPT !.vm.enabled = TRUE]
      [] opcode = OP_DI -> IF ~km THEN Privilege(c) ELSE Di(c)
      [] opcode = OP_IRET -> IF ~km THEN Privilege(c) ELSE Iret(c, g)
      [] opcode = OP_RAISE -> c32_raise_interrupt(c, imm[2] % 256)
      [] opcode = OP_GETPC -> SetReg(c, rd, c.vm.saved_pc, g)
      [] opcode = OP_ENABLE_PAGING ->
            IF ~km THEN Privilege(c) ELSE [c EXCEPT !.vm.paging_enabled = TRUE]
      [] opcode = OP_DISABLE_PAGING ->
            IF ~km THEN Privilege(c) ELSE [c EXCEPT !.vm.paging_enabled = FALSE]
      [] opcode = OP_SET_PTBR ->
            IF ~km THEN Privilege(c)
            ELSE SetPtbr(c, Reg(c, rd, g), RT)
      [] opcode = OP_ENTER_USER ->
            IF ~km THEN Privilege(c) ELSE [c EXCEPT !.vm.kernel_mode = FALSE]
      [] opcode = OP_GETMODE -> SetReg(c, rd, Bool32(km), g)
      [] OTHER -> Halt(c, 1)

(***************************************************************************)
(* c32_vm_step.  inst is the 8 bytes the host loaded at the translated PC: *)
(* program text is an input of the step and is not held in `memory`.       *)
(***************************************************************************)
Failed(c) == [vm |-> c.vm, ev |-> [c.ev EXCEPT !.ret = -1]]

\* the fetch: decode of the 8 bytes and vm->pc += 8
Fetched(c, phys_pc, inst) ==
    Flag(Flag([c EXCEPT !.vm.pc = Add32(@, W(8)),
                        !.ev.exec = TRUE,
                        !.ev.inst = inst,
                        !.ev.acc = @ \cup {[phys |-> phys_pc, n |-> 8, kind |-> "fetch"]}],
              ~InBounds(phys_pc, 8), "oobread"),
         \E i \in UsedRegs(inst[1], inst[2], inst[3], inst[4], c.vm.kernel_mode) : i > 31,
         "regidx")

\* faulty variant, on which the property below must fail: the step returns without the clamp
ClampR0_Skipped(c) == [vm |-> c.vm, ev |-> c.ev]

\* vm->regs[0] = 0; return 0
ClampR0(c) == [vm |-> [c.vm EXCEPT !.regs[0] = W(0)], ev |-> c.ev]

\* opcode = inst[0] ... rd = inst[3]; imm = c32_read_word(inst + 4)
Decode(inst) ==
    [opcode |-> inst[1], rs |-> inst[2], rt |-> inst[3], rd |-> inst[4],
     immediate |-> <<inst[7] + 256 * inst[8], inst[5] + 256 * inst[6]>>]

FetchExecute(c, phys_pc, inst, g) ==
    Bind(Fetched(c, phys_pc, inst), LAMBDA c1 :
    Bind(Execute(c1, Decode(inst).opcode, Decode(inst).rs, Decode(inst).rt,
                 Decode(inst).rd, Decode(inst).immediate, g),
         LAMBDA c2 : ClampR0(c2)))

\* the step after translate_address(vm, vm->pc, 0, 1) returned t
StepFetch(t, inst, g) ==
    IF t.phys = FAULT THEN Failed(t.c)
    ELSE IF Ltu(MemorySize, Add32(t.phys, W(8)))
         THEN Failed([t.c EXCEPT !.vm.running = FALSE])
    ELSE FetchExecute(t.c, t.phys, inst, g)

\* faulty variant, on which the property below must fail: no alignment test
Misaligned_Unchecked(pc) == FALSE

\* faulty variant, on which the property below must fail: only the two low
\* bits of PC are tested
Misaligned_Mask3(pc) == pc[2] % 4 # 0

\* (vm->pc & 0x7) != 0
Misaligned(pc) == pc[2] % 8 # 0

\* the step after check_interrupts returned ci
StepChecked(ci, inst, g) ==
    IF ci.ret < 0 THEN Failed(ci.c)
    ELSE Bind([ci.c EXCEPT !.ev.fetch_pc = ci.c.vm.pc,
                           !.ev.km_exec = ci.c.vm.kernel_mode], LAMBDA c1 :
         IF Misaligned(c1.vm.pc) THEN Failed(c32_raise_interrupt(c1, 2))
         ELSE Bind(translate_address(c1, c1.vm.pc, FALSE, TRUE, g),
                   LAMBDA t : StepFetch(t, inst, g)))

c32_vm_step(vm, inst, g) ==
    Bind(check_interrupts([vm |-> vm, ev |-> EvOf("step")]),
         LAMBDA ci : StepChecked(ci, inst, g))

(***************************************************************************)
(* c32_encode_instruction (src/c32_encode.c): the 8 bytes of an            *)
(* instruction, the immediate little-endian.                               *)
(***************************************************************************)
\* faulty variant, on which the property below must fail: the immediate is
\* written most significant byte first
c32_encode_instruction_BigEndian(opcode, rs, rt, rd, imm) ==
    <<opcode, rs, rt, rd, imm[1] \div 256, imm[1] % 256, imm[2] \div 256, imm[2] % 256>>

c32_encode_instruction(opcode, rs, rt, rd, imm) ==
    <<opcode, rs, rt, rd, imm[2] % 256, imm[2] \div 256, imm[1] % 256, imm[1] \div 256>>

(***************************************************************************)
(* The host's memory image: handlers installed with                        *)
(* c32_set_interrupt_handler and a page table of six entries.              *)
(***************************************************************************)
LoadAddr == 4096
HandlerAddr == 2 * LoadAddr
PageTable == 3 * LoadAddr

\* PTE bits
PTE_V == 1
PTE_W == 2
PTE_X == 4
PTE_U == 8

PTEs ==
    <<U32(0, PTE_V + PTE_W + PTE_U),              \* page 0: data, frame 0
      U32(0, 4096 + PTE_V + PTE_X + PTE_U),       \* page 1: text, frame 0x1000
      U32(0, 8192 + PTE_V + PTE_W + PTE_X),       \* page 2: kernel only
      U32(0, 0),                                  \* page 3: not valid
      U32(15, PTE_V + PTE_W + PTE_X + PTE_U),     \* page 4: frame 0xF0000, past the memory
      U32(65535, 61440 + PTE_V + PTE_W + PTE_X + PTE_U)>>  \* page 5: frame 0xFFFFF000

RECURSIVE WithPTEs(_, _)
WithPTEs(m, i) ==
    IF i > Len(PTEs) THEN m
    ELSE WithPTEs(c32_write_word(m, PageTable + 4 * (i - 1), PTEs[i]), i + 1)

\* interrupt -> handler address installed; 9 has a misaligned handler
Handlers == <<<<0, W(HandlerAddr)>>, <<1, W(HandlerAddr)>>, <<2, W(HandlerAddr)>>, <<3, W(HandlerAddr)>>,
              <<7, W(HandlerAddr)>>, <<8, W(HandlerAddr)>>, <<9, W(HandlerAddr + 4)>>>>

RECURSIVE WithHandlers(_, _)
WithHandlers(vm, i) ==
    IF i > Len(Handlers) THEN vm
    ELSE WithHandlers(c32_set_interrupt_handler(vm, Handlers[i][1], Handlers[i][2]), i + 1)

\* c32_vm_init on the image, then the host's vm.pc = load_addr; vm.running = 1
Loaded0 ==
    [WithHandlers(c32_vm_init(WithPTEs(<<>>, 1)), 1) EXCEPT !.pc = W(LoadAddr),
                                                            !.running = TRUE]

(***************************************************************************)
(* Instruction words the steps draw from                                   *)
(***************************************************************************)
I(opcode, rs, rt, rd, imm) == c32_encode_instruction(opcode, rs, rt, rd, imm)

AluWords ==
    {I(op, 29, 4, 1, W(0)) : op \in {OP_ADD, OP_MUL, OP_MULH, OP_MULHU, OP_DIV, OP_DIVU,
                                      OP_REM, OP_REMU, OP_NOR}}
    \cup {I(OP_ADDIU, 29, 1, 0, W(12)),
          I(OP_SRA, 0, 29, 1, W(3)),
          I(OP_NOP, 0, 0, 0, W(0)),
          I(OP_ADDI, 0, 0, 0, W(5)),                   \* ADDI R0, R0, 5
          I(OP_ADDI, 0, 1, 0, W(4)),                   \* ADDI R1, R0, 4
          I(OP_ADDI, 0, 29, 0, W(32768)),              \* ADDI R29, R0, 0x8000
          I(OP_ADDI, 0, 29, 0, W(MemSize + 128)),      \* ADDI R29, R0, memory_size + 128
          I(OP_LUI, 0, 1, 0, W(65535)),                \* LUI R1, 0xFFFF
          I(OP_ADDI, 0, 32, 0, W(4)),                  \* rt = 32
          I(OP_ADDI, 0, 38, 0, W(1)),                  \* rt = 38
          I(OP_OR, 32, 0, 1, W(0))}                    \* rs = 32

MemWords ==
    {I(op, 0, 1, 0, W(PageTable + 4)) : op \in {OP_LW, OP_LBU}}
    \cup {I(op, 0, 29, 0, W(256)) : op \in {OP_SW, OP_SB}}
    \cup {I(OP_LW, 0, 0, 0, W(PageTable + 4)),         \* LW R0, R0, ...
          I(OP_LW, 1, 1, 0, W(0)),                     \* LW R1, R1, 0
          I(OP_LW, 0, 1, 0, U32(65535, 65532)),        \* LW R1, R0, 0xFFFFFFFC
          I(OP_LW, 0, 1, 0, W(MemSize)),               \* LW R1, R0, memory_size
          I(OP_SW, 0, 29, 0, U32(65535, 65534)),       \* SW R29, R0, 0xFFFFFFFE
          I(OP_SW, 0, 29, 0, W(16384)),                \* SW R29, R0, 0x4000 (page 4)
          I(OP_LW, 0, 1, 0, W(12288))}                 \* LW R1, R0, 0x3000 (page 3)

FlowWords ==
    {I(OP_BLEZ, 1, 0, 0, W(8)),
     I(OP_BEQ, 0, 0, 0, W(16)),
     I(OP_BEQ, 0, 0, 0, W(4)),
     I(OP_J, 0, 0, 0, W(HandlerAddr)),
     I(OP_J, 0, 0, 0, W(LoadAddr + 4)),
     I(OP_J, 0, 0, 0, U32(65535, 65528)),              \* J 0xFFFFFFF8
     I(OP_J, 0, 0, 0, W(2 * MemSize)),
     I(OP_JAL, 0, 0, 0, W(HandlerAddr)),
     I(OP_JR, 1, 0, 0, W(0)),
     I(OP_JALR, 1, 0, 0, W(0)),                        \* JALR R0, R1
     I(OP_JALR, 1, 0, 1, W(0))}                        \* JALR R1, R1

SysWords ==
    {I(op, 0, 0, 0, W(0)) : op \in {OP_SYSCALL, OP_BREAK, OP_EI, OP_DI, OP_IRET, 250,
                                    OP_ENABLE_PAGING, OP_DISABLE_PAGING, OP_ENTER_USER}}
    \cup {I(OP_RAISE, 0, 0, 0, W(i)) : i \in {3, 9, 255}}
    \cup {I(OP_GETPC, 0, 0, 1, W(0)),
          I(OP_GETMODE, 0, 0, 1, W(0)),
          I(OP_SET_PTBR, 0, 29, 1, W(0))}              \* SET_PTBR rd = R1, rt = R29

InstrWords == AluWords \cup MemWords \cup FlowWords \cup SysWords

\* what an out-of-bounds access may yield
G0 == [word |-> W(0), alias |-> TRUE]

Garbage ==
    {G0,
     [word |-> U32(0, PTE_V + PTE_W + PTE_X + PTE_U), alias |-> FALSE]}

(***************************************************************************)
(* The states the explored steps start from: the loaded machine after one  *)
(* of the boot sequences has been stepped through.                         *)
(***************************************************************************)
RECURSIVE StepAll(_, _, _)
StepAll(vm, prog, i) ==
    IF i > Len(prog) THEN vm
    ELSE Bind(c32_vm_step(vm, prog[i], G0), LAMBDA r :
              IF r.ev.ret = 0 THEN StepAll(r.vm, prog, i + 1) ELSE r.vm)

EnterPaged ==
    <<I(OP_ADDI, 0, 1, 0, W(PageTable)),     \* ADDI R1, R0, page table
      I(OP_ADDI, 0, 2, 0, W(6)),             \* ADDI R2, R0, 6
      I(OP_SET_PTBR, 0, 2, 1, W(0)),         \* SET_PTBR rd = R1, rt = R2
      I(OP_ENABLE_PAGING, 0, 0, 0, W(0))>>

BootProgs ==
    {<<>>,
     <<I(OP_EI, 0, 0, 0, W(0))>>,
     <<I(OP_ADDI, 0, 29, 0, W(32768)), I(OP_EI, 0, 0, 0, W(0))>>,
     <<I(OP_ADDI, 0, 29, 0, W(MemSize + 128)), I(OP_EI, 0, 0, 0, W(0))>>,
     <<I(OP_EI, 0, 0, 0, W(0)), I(OP_ENTER_USER, 0, 0, 0, W(0))>>,
     EnterPaged \o <<I(OP_ADDI, 0, 29, 0, W(32768)), I(OP_EI, 0, 0, 0, W(0)),
                     I(OP_ENTER_USER, 0, 0, 0, W(0))>>}

(***************************************************************************)
(* The state machine                                                       *)
(*   vm      the c32_vm_t                                                  *)
(*   ev      what the last API call did                                    *)
(*   loop    "host": the host is between calls; "run": inside c32_vm_run   *)
(*   active  a handler is executing: an interrupt was dispatched and no    *)
(*           IRET has executed since                                       *)
(*   nsteps  the number of c32_vm_step calls so far                        *)
(***************************************************************************)
VARIABLES vm, ev, loop, active, nsteps

vars == <<vm, ev, loop, active, nsteps>>

MaxSteps == 2

\* the interrupts the host raises with c32_raise_interrupt
HostInts == {3, 255}

Init ==
    /\ vm \in {StepAll(Loaded0, prog, 1) : prog \in BootProgs}
    /\ ev = EvOf("init")
    /\ loop = "host"
    /\ active = FALSE
    /\ nsteps = 0

\* the IRET case ran its kernel-mode branch
IretExecuted(e) == e.exec /\ e.inst[1] = OP_IRET /\ e.km_exec

ActiveAfter(was, e) ==
    IF e.disp >= 0 THEN ~IretExecuted(e)
    ELSE IF IretExecuted(e) THEN FALSE ELSE was

\* one call of c32_vm_step on an instruction word; the outcome g of an
\* out-of-range access matters only to a step that makes one
StepBy(run) ==
    \E inst \in InstrWords : \E g \in Garbage : \E r \in {c32_vm_step(vm, inst, g)} :
        /\ g = G0 \/ r.ev.ub # {}
        /\ vm' = r.vm
        /\ ev' = [r.ev EXCEPT !.run = run]
        /\ active' = ActiveAfter(active, r.ev)
        /\ nsteps' = nsteps + 1

\* the host's loop: while (vm.running) c32_vm_step(&vm)
HostStep ==
    /\ loop = "host"
    /\ vm.running
    /\ nsteps < MaxSteps
    /\ StepBy(FALSE)
    /\ UNCHANGED loop

\* the host calls c32_raise_interrupt
HostRaise ==
    /\ loop = "host"
    /\ nsteps < MaxSteps
    /\ \E n \in HostInts \ vm.pending :
         \E c \in {c32_raise_interrupt([vm |-> vm, ev |-> EvOf("raise")], n)} :
             vm' = c.vm /\ ev' = c.ev
    /\ UNCHANGED <<loop, active, nsteps>>

\* the host calls c32_vm_reset
HostReset ==
    /\ loop = "host"
    /\ nsteps < MaxSteps
    /\ vm' = c32_vm_reset(vm)
    /\ ev' = EvOf("reset")
    /\ active' = FALSE
    /\ UNCHANGED <<loop, nsteps>>

\* c32_vm_run: vm->running = 1, then the while loop
RunEnter ==
    /\ loop = "host"
    /\ nsteps < MaxSteps
    /\ vm' = [vm EXCEPT !.running = TRUE]
    /\ ev' = EvOf("run")
    /\ loop' = "run"
    /\ UNCHANGED <<active, nsteps>>

\* one iteration: while (vm->running) { if (c32_vm_step(vm) != 0) break; }
RunIter ==
    /\ loop = "run"
    /\ vm.running
    /\ nsteps < MaxSteps
    /\ StepBy(TRUE)
    /\ loop' = IF ev'.ret # 0 THEN "host" ELSE "run"

\* the loop test fails: c32_vm_run returns
RunExit ==
    /\ loop = "run"
    /\ ~vm.running
    /\ loop' = "host"
    /\ UNCHANGED <<vm, ev, active, nsteps>>

Next == HostStep \/ HostRaise \/ HostReset \/ RunEnter \/ RunIter \/ RunExit

Spec == Init /\ [][Next]_vars

(***************************************************************************)
(* translate_address on its own: the MMU registers are drawn from the       *)
(* values SET_PTBR, ENABLE_PAGING and ENTER_USER can leave, and every call  *)
(* translates one address of the image.                                     *)
(***************************************************************************)
MaxCalls == 1

PTBases == {W(PageTable), W(MemSize - 4), W(MemSize - 2), U32(65535, 65532)}

NumPages == {W(0), W(1), W(6), U32(16, 0)}

VAddrs ==
    {W(16), W(4096 + 16), W(2 * 4096), W(3 * 4096), W(4 * 4096 + 4), W(5 * 4096),
     W(6 * 4096), U32(192, 4096 + 8), U32(65535, 65535)}

InitMMU ==
    /\ vm \in {[Loaded0 EXCEPT !.kernel_mode = km, !.paging_enabled = pe,
                                !.page_table_base = ptb, !.num_pages = np] :
                   km \in BOOLEAN, pe \in BOOLEAN, ptb \in PTBases, np \in NumPages}
    /\ ev = EvOf("init")
    /\ loop = "host"
    /\ active = FALSE
    /\ nsteps = 0

\* one call translate_address(vm, vaddr, is_write, is_exec)
TranslateCall ==
    /\ nsteps < MaxCalls
    /\ \E vaddr \in VAddrs, is_write \in BOOLEAN, is_exec \in BOOLEAN, g \in Garbage :
         \E r \in {translate_address([vm |-> vm, ev |-> EvOf("translate")],
                                     vaddr, is_write, is_exec, g)} :
             /\ g = G0 \/ r.c.ev.ub # {}
             /\ vm' = r.c.vm
             /\ ev' = r.c.ev
    /\ nsteps' = nsteps + 1
    /\ UNCHANGED <<loop, active>>

NextMMU == TranslateCall

SpecMMU == InitMMU /\ [][NextMMU]_vars

(***************************************************************************)
(* SpecExec: single instructions on chosen operands.  The machine is the   *)
(* loaded one, in kernel mode or in user mode with paging, with R1 and R2  *)
(* holding operand values; one step executes any opcode byte on one of the *)
(* register shapes, and a store is followed by a load at the same rs+imm.  *)
(***************************************************************************)
MaxExec == 1

\* the 62 opcode bytes c32_vm_step has a case for
DefinedOps ==
    OpsRsRtRd \cup OpsRsRt
    \cup {OP_NOP, OP_MULHU, OP_LUI, OP_SLL, OP_SRL, OP_SRA, OP_BLEZ, OP_BGTZ, OP_BLTZ,
          OP_BGEZ, OP_J, OP_JAL, OP_JR, OP_JALR, OP_SYSCALL, OP_BREAK, OP_EI, OP_DI,
          OP_IRET, OP_RAISE, OP_GETPC, OP_ENABLE_PAGING, OP_DISABLE_PAGING, OP_SET_PTBR,
          OP_ENTER_USER, OP_GETMODE}

LoadOps == {OP_LW, OP_LH, OP_LHU, OP_LB, OP_LBU}
StoreOps == {OP_SW, OP_SH, OP_SB}

\* <<rs, rt, rd>> bytes of the words executed; 32 is outside regs[32]
ExecShapes == {<<1, 2, 3>>, <<0, 0, 0>>, <<1, 2, 1>>, <<32, 2, 3>>, <<1, 2, 32>>}

ExecImms == {W(0), W(2)}

ExecWords ==
    {I(op, sh[1], sh[2], sh[3], imm) : op \in DefinedOps, sh \in ExecShapes, imm \in ExecImms}
    \cup {I(op, 1, 2, 3, W(0)) : op \in (0..255) \ DefinedOps}

\* R1: addresses in page 0 (data), 2 (kernel only), 3 (not valid), 6 (past
\* num_pages), at the end of the memory and of the address space, and the
\* operands 65536 and INT_MIN
R1Vals ==
    {W(256), W(2 * 4096), W(3 * 4096), W(6 * 4096), W(MemSize - 2), U32(65535, 65532),
     U32(1, 0), U32(32768, 0)}

\* R2: 0, 7, 65536, -1, 0x89ABCDEF
R2Vals == {W(0), W(7), U32(1, 0), U32(65535, 65535), U32(35243, 52719)}

UserPaged ==
    StepAll(Loaded0, EnterPaged \o <<I(OP_ADDI, 0, 29, 0, W(32768)), I(OP_EI, 0, 0, 0, W(0)),
                                     I(OP_ENTER_USER, 0, 0, 0, W(0))>>, 1)

InitExec ==
    /\ vm \in {[base EXCEPT !.regs[1] = a, !.regs[2] = b] :
                   base \in {Loaded0, UserPaged}, a \in R1Vals, b \in R2Vals}
    /\ ev = EvOf("init")
    /\ loop = "host"
    /\ active = FALSE
    /\ nsteps = 0

\* one call of c32_vm_step on the word inst
StepOn(inst) ==
    \E g \in Garbage : \E r \in {c32_vm_step(vm, inst, g)} :
        /\ g = G0 \/ r.ev.ub # {}
        /\ vm' = r.vm
        /\ ev' = r.ev
        /\ active' = ActiveAfter(active, r.ev)
        /\ nsteps' = nsteps + 1
        /\ UNCHANGED loop

ExecStep ==
    /\ nsteps < MaxExec
    /\ vm.running
    /\ \E inst \in ExecWords : StepOn(inst)

\* after a store, a load of any width into R3 at the same rs and imm
Reload ==
    /\ nsteps = MaxExec
    /\ vm.running
    /\ ev.call = "step" /\ ev.exec /\ ev.inst[1] \in StoreOps
    /\ \E op \in LoadOps :
         StepOn(<<op, ev.inst[2], 3, 0, ev.inst[5], ev.inst[6], ev.inst[7], ev.inst[8]>>)

NextExec == ExecStep \/ Reload

SpecExec == InitExec /\ [][NextExec]_vars

(***************************************************************************)
(* Pairs of consecutive steps.  SpecPair steps the machine at most MaxPair *)
(* times from the states PairStarts and keeps, next to what the step did,  *)
(* the interrupt state the step began in (ev.before) and the record of the *)
(* step before it (ev.prev).                                               *)
(***************************************************************************)
MaxPair == 2

\* c32_interrupt_state_t
IntState(m) ==
    [enabled |-> m.enabled, pending |-> m.pending, saved_pc |-> m.saved_pc,
     saved_regs_addr |-> m.saved_regs_addr]

PairProgs ==
    LET Sp == I(OP_ADDI, 0, 29, 0, W(32768))
        Ra(n) == I(OP_RAISE, 0, 0, 0, W(n))
        Ei == I(OP_EI, 0, 0, 0, W(0))
        Usr == I(OP_ENTER_USER, 0, 0, 0, W(0))
        Nop == I(OP_ADD, 0, 0, 0, W(0))
    IN  {<<Sp>>,
         <<Sp, Ei>>,
         <<Sp, Ra(3)>>,
         <<Sp, Ra(255)>>,
         <<Sp, Ra(3), Ra(9)>>,
         <<Sp, Ra(3), Ei>>,
         <<Sp, Ra(255), Ei>>,
         <<Sp, Ra(3), Ra(9), Ei>>,
         <<Sp, Ra(3), Ei, Nop>>,                 \* inside the handler of 3
         <<Sp, Ra(3), Ra(9), Ei, Ei>>,           \* inside it, enabled, 9 pending
         <<Sp, Ra(3), Ra(7), Ei, Ei>>,           \* inside it, enabled, 7 pending
         <<Sp, Usr>>,
         <<Sp, Ei, Usr>>,
         <<Sp, Usr, Ra(3)>>}

PairStarts == {StepAll(Loaded0, prog, 1) : prog \in PairProgs}

PairWords ==
    {I(op, 0, 0, 0, W(0)) : op \in {OP_EI, OP_DI, OP_ADD, OP_IRET}}
    \cup {I(OP_RAISE, 0, 0, 0, W(9))}

InitPair ==
    /\ vm \in PairStarts
    /\ ev = EvOf("init") @@ [before |-> IntState(vm)]
    /\ loop = "host"
    /\ active = FALSE
    /\ nsteps = 0

\* one call of c32_vm_step
PairStep ==
    /\ nsteps < MaxPair
    /\ vm.running
    /\ \E inst \in PairWords : \E r \in {c32_vm_step(vm, inst, G0)} :
         /\ vm' = r.vm
         /\ ev' = r.ev @@ [before |-> IntState(vm),
                           prev |-> [k \in DOMAIN ev \ {"prev"} |-> ev[k]]]
         /\ active' = ActiveAfter(active, r.ev)
         /\ nsteps' = nsteps + 1
         /\ UNCHANGED loop

NextPair == PairStep

SpecPair == InitPair /\ [][NextPair]_vars

(***************************************************************************)
(* Encoding and decoding.  SpecCodec makes at most MaxCodec calls, each    *)
(* either decoding an 8-byte word as the step does and encoding the fields *)
(* again, or encoding an instruction record and decoding the bytes.        *)
(***************************************************************************)
MaxCodec == 1

\* values of a uint8_t field and of the uint32_t immediate
CodecBytes == {0, 5, 255}

CodecImms == {W(0), W(1), W(65280), U32(4660, 22136), U32(32768, 0), U32(65535, 65535)}

CodecRecords ==
    [opcode : CodecBytes, rs : CodecBytes, rt : CodecBytes, rd : CodecBytes,
     immediate : CodecImms]

CodecWords ==
    {<<r.opcode, r.rs, r.rt, r.rd, b[1], b[2], b[3], b[4]>> :
        r \in CodecRecords,
        b \in {<<0, 0, 0, 0>>, <<1, 2, 3, 4>>, <<255, 255, 255, 255>>, <<0, 0, 0, 128>>,
               <<120, 86, 52, 18>>, <<0, 255, 0, 0>>}}

Encoded(r) == c32_encode_instruction(r.opcode, r.rs, r.rt, r.rd, r.immediate)

InitCodec ==
    /\ vm = Loaded0
    /\ ev = EvOf("init")
    /\ loop = "host"
    /\ active = FALSE
    /\ nsteps = 0

\* the fetch's decoding of the word w, then c32_encode_instruction
DecodeEncode ==
    /\ nsteps < MaxCodec
    /\ \E w \in CodecWords :
         ev' = [call |-> "decode_encode", word |-> w, rec |-> Decode(w),
                out |-> Encoded(Decode(w))]
    /\ nsteps' = nsteps + 1
    /\ UNCHANGED <<vm, loop, active>>

\* c32_encode_instruction of the record r, then the fetch's decoding
EncodeDecode ==
    /\ nsteps < MaxCodec
    /\ \E r \in CodecRecords :
         ev' = [call |-> "encode_decode", rec |-> r, word |-> Encoded(r),
                out |-> Decode(Encoded(r))]
    /\ nsteps' = nsteps + 1
    /\ UNCHANGED <<vm, loop, active>>

NextCodec == DecodeEncode \/ EncodeDecode

SpecCodec == InitCodec /\ [][NextCodec]_vars

(***************************************************************************)
(* The assembler (src/asm/c32_parser.c, src/asm/c32_symbols.c,             *)
(* src/c32asm.c).  A source file is a sequence of lines as the tokenizer   *)
(* cuts them:                                                              *)
(*   label  the characters before a leading `:', <<>> if there is none     *)
(*   mn     the mnemonic token, "" if the line holds no instruction        *)
(*   ops    the operand tokens, each the sequence of its characters        *)
(*   args   what the author wrote as operands: registers and numbers by    *)
(*          value, labels by name (not read by the assembler)              *)
(***************************************************************************)
MAX_SYMBOLS == 1024
MAX_LABEL_LEN == 64
MAX_OUTPUT_SIZE == 64 * 1024

\* the constant added to the target of J and JAL
JumpBias == 4096

DecChars == <<"0", "1", "2", "3", "4", "5", "6", "7", "8", "9">>
HexLower == <<"a", "b", "c", "d", "e", "f">>
HexUpper == <<"A", "B", "C", "D", "E", "F">>

IndexIn(seq, ch) == IF \E i \in 1..Len(seq) : seq[i] = ch
                    THEN CHOOSE i \in 1..Len(seq) : seq[i] = ch
                    ELSE 0

\* the value of a hexadecimal digit character, -1 for any other character
HexVal(ch) ==
    IF IndexIn(DecChars, ch) > 0 THEN IndexIn(DecChars, ch) - 1
    ELSE IF IndexIn(HexLower, ch) > 0 THEN IndexIn(HexLower, ch) + 9
    ELSE IF IndexIn(HexUpper, ch) > 0 THEN IndexIn(HexUpper, ch) + 9
    ELSE -1

\* `while (*p) { ... value = (value << 4) | digit ... else break; }`
RECURSIVE HexDigits(_, _, _)
HexDigits(tok, i, value) ==
    IF i > Len(tok) \/ HexVal(tok[i]) < 0 THEN value
    ELSE HexDigits(tok, i + 1, value * 16 + HexVal(tok[i]))

\* `while (*p >= '0' && *p <= '9') value = value * 10 + digit`
RECURSIVE DecDigits(_, _, _)
DecDigits(tok, i, value) ==
    IF i > Len(tok) \/ IndexIn(DecChars, tok[i]) = 0 THEN value
    ELSE DecDigits(tok, i + 1, value * 10 + IndexIn(DecChars, tok[i]) - 1)

\* parse_immediate: the int32_t stored in *result, as a uint32_t; the
\* function reports no failure (it always returns 0)
ParsedFrom(tok, p, negative) ==
    Bind(IF Len(tok) > p /\ tok[p] = "0" /\ tok[p + 1] \in {"x", "X"}
         THEN HexDigits(tok, p + 2, 0)
         ELSE DecDigits(tok, p, 0),
         LAMBDA value : IF negative THEN Neg32(W(value)) ELSE W(value))

parse_immediate(tok) ==
    IF Len(tok) > 0 /\ tok[1] = "-" THEN ParsedFrom(tok, 2, TRUE)
    ELSE IF Len(tok) > 0 /\ tok[1] = "+" THEN ParsedFrom(tok, 2, FALSE)
    ELSE ParsedFrom(tok, 1, FALSE)

\* the special register names, in the order of their numbers 0..31
AbiNames ==
    <<<<"z", "e", "r", "o">>, <<"a", "t">>, <<"v", "0">>, <<"v", "1">>,
      <<"a", "0">>, <<"a", "1">>, <<"a", "2">>, <<"a", "3">>,
      <<"t", "0">>, <<"t", "1">>, <<"t", "2">>, <<"t", "3">>,
      <<"t", "4">>, <<"t", "5">>, <<"t", "6">>, <<"t", "7">>,
      <<"s", "0">>, <<"s", "1">>, <<"s", "2">>, <<"s", "3">>,
      <<"s", "4">>, <<"s", "5">>, <<"s", "6">>, <<"s", "7">>,
      <<"t", "8">>, <<"t", "9">>, <<"k", "0">>, <<"k", "1">>,
      <<"g", "p">>, <<"s", "p">>, <<"f", "p">>, <<"r", "a">>>>

\* c32_parse_register (src/c32_encode.c): 0..31, or -1
c32_parse_register(tok) ==
    IF Len(tok) = 0 THEN -1
    ELSE IF IndexIn(AbiNames, tok) > 0 THEN IndexIn(AbiNames, tok) - 1
    ELSE IF tok[1] \in {"R", "r"} /\ Len(tok) > 1
         THEN IF \E i \in 2..Len(tok) : IndexIn(DecChars, tok[i]) = 0 THEN -1
              ELSE IF DecDigits(tok, 2, 0) <= 31 THEN DecDigits(tok, 2, 0)
              ELSE -1
    ELSE -1

\* (uint8_t)c32_parse_register(token)
RegByte(tok) == c32_parse_register(tok) % 256

Mnemonics ==
    [ADD |-> OP_ADD, ADDU |-> OP_ADDU, SUB |-> OP_SUB, SUBU |-> OP_SUBU,
     ADDI |-> OP_ADDI, ADDIU |-> OP_ADDIU,
     AND |-> OP_AND, OR |-> OP_OR, XOR |-> OP_XOR, NOR |-> OP_NOR,
     ANDI |-> OP_ANDI, ORI |-> OP_ORI, XORI |-> OP_XORI, LUI |-> OP_LUI,
     SLL |-> OP_SLL, SRL |-> OP_SRL, SRA |-> OP_SRA,
     SLLV |-> OP_SLLV, SRLV |-> OP_SRLV, SRAV |-> OP_SRAV,
     SLT |-> OP_SLT, SLTU |-> OP_SLTU, SLTI |-> OP_SLTI, SLTIU |-> OP_SLTIU,
     MUL |-> OP_MUL, MULH |-> OP_MULH, MULHU |-> OP_MULHU,
     DIV |-> OP_DIV, DIVU |-> OP_DIVU, REM |-> OP_REM, REMU |-> OP_REMU,
     LW |-> OP_LW, LH |-> OP_LH, LHU |-> OP_LHU, LB |-> OP_LB, LBU |-> OP_LBU,
     SW |-> OP_SW, SH |-> OP_SH, SB |-> OP_SB,
     BEQ |-> OP_BEQ, BNE |-> OP_BNE, BLEZ |-> OP_BLEZ, BGTZ |-> OP_BGTZ,
     BLTZ |-> OP_BLTZ, BGEZ |-> OP_BGEZ,
     J |-> OP_J, JAL |-> OP_JAL, JR |-> OP_JR, JALR |-> OP_JALR,
     SYSCALL |-> OP_SYSCALL, BREAK |-> OP_BREAK, NOP |-> OP_NOP,
     EI |-> OP_EI, DI |-> OP_DI, IRET |-> OP_IRET, RAISE |-> OP_RAISE,
     GETPC |-> OP_GETPC,
     ENABLE_PAGING |-> OP_ENABLE_PAGING, DISABLE_PAGING |-> OP_DISABLE_PAGING,
     SET_PTBR |-> OP_SET_PTBR, ENTER_USER |-> OP_ENTER_USER, GETMODE |-> OP_GETMODE]

\* parse_opcode: the chain of c32_strcmp tests
parse_opcode(mnemonic) ==
    IF mnemonic \in DOMAIN Mnemonics THEN Mnemonics[mnemonic] ELSE -1

\* c32_asm_init
c32_asm_init ==
    [symbols |-> <<>>, current_address |-> 0, output |-> <<>>, pass |-> 1, errors |-> 0]

\* c32_asm_find_symbol: the index of the first entry of that name, or -1
c32_asm_find_symbol(state, name) ==
    IF \E i \in 1..Len(state.symbols) : state.symbols[i].name = name
    THEN (CHOOSE i \in 1..Len(state.symbols) :
              /\ state.symbols[i].name = name
              /\ \A k \in 1..(i - 1) : state.symbols[k].name # name) - 1
    ELSE -1

\* symbols[idx].address for a name that c32_asm_find_symbol finds
SymbolAddress(state, name) == state.symbols[c32_asm_find_symbol(state, name) + 1].address

\* c32_asm_add_symbol once c32_asm_find_symbol returned idx
AddSymbolAt(state, idx, name, address) ==
    IF idx >= 0
    THEN IF state.symbols[idx + 1].defined = 1 THEN [state |-> state, ret |-> -2]
         ELSE [state |-> [state EXCEPT !.symbols[idx + 1].address = address,
                                       !.symbols[idx + 1].defined = 1],
               ret |-> idx]
    ELSE IF Len(state.symbols) >= MAX_SYMBOLS THEN [state |-> state, ret |-> -3]
    ELSE [state |-> [state EXCEPT !.symbols =
                        Append(@, [name |-> name, address |-> address, defined |-> 1])],
          ret |-> Len(state.symbols)]

c32_asm_add_symbol(state, name, address) ==
    IF Len(name) = 0 \/ Len(name) >= MAX_LABEL_LEN THEN [state |-> state, ret |-> -1]
    ELSE AddSymbolAt(state, c32_asm_find_symbol(state, name), name, address)

\* the operand groups of c32_asm_assemble_line
AsmRType ==
    {OP_ADD, OP_ADDU, OP_SUB, OP_SUBU, OP_AND, OP_OR, OP_XOR, OP_NOR, OP_SLT, OP_SLTU,
     OP_MUL, OP_MULH, OP_MULHU, OP_DIV, OP_DIVU, OP_REM, OP_REMU, OP_SLLV, OP_SRLV, OP_SRAV}
AsmIType == {OP_ADDI, OP_ADDIU, OP_ANDI, OP_ORI, OP_XORI, OP_SLTI, OP_SLTIU}
AsmShifts == {OP_SLL, OP_SRL, OP_SRA}
AsmBranch2 == {OP_BEQ, OP_BNE}
AsmBranch1 == {OP_BLEZ, OP_BGTZ, OP_BLTZ, OP_BGEZ}
AsmJumps == {OP_J, OP_JAL}
AsmLoadStore == LoadOps \cup StoreOps

\* faulty variant, on which the property below must fail: the offset of a
\* label is taken from the address of the branch itself
BranchTarget_FromBranch(state, tok) ==
    IF c32_asm_find_symbol(state, tok) >= 0
    THEN Sub32(W(SymbolAddress(state, tok)), W(state.current_address))
    ELSE parse_immediate(tok)

\* the immediate of a branch: label - (current_address + 8), or the number
BranchTarget(state, tok) ==
    IF c32_asm_find_symbol(state, tok) >= 0
    THEN Sub32(W(SymbolAddress(state, tok)), W(state.current_address + 8))
    ELSE parse_immediate(tok)

\* faulty variant, on which the property below must fail: the target of J and
\* JAL is the label's assembly address
JumpTarget_Unbiased(state, tok) ==
    IF c32_asm_find_symbol(state, tok) >= 0
    THEN W(SymbolAddress(state, tok))
    ELSE parse_immediate(tok)

\* the immediate of J and JAL: label + 0x1000, or the number + 0x1000
JumpTarget(state, tok) ==
    IF c32_asm_find_symbol(state, tok) >= 0
    THEN Add32(W(SymbolAddress(state, tok)), W(JumpBias))
    ELSE Add32(parse_immediate(tok), W(JumpBias))

\* c32_memset(&inst, 0, sizeof(inst)); inst.opcode = opcode
Inst0(opcode) ==
    [opcode |-> opcode, rs |-> 0, rt |-> 0, rd |-> 0, immediate |-> W(0)]

Parsed(inst) == [ok |-> TRUE, inst |-> inst]
TooFew == [ok |-> FALSE, inst |-> Inst0(0)]

\* the if-chain on the opcode; tokens[k] is ops[k], token_count is 1 + Len(ops)
ParseOperands(state, opcode, ops) ==
    IF opcode \in AsmRType THEN
        IF Len(ops) < 3 THEN TooFew
        ELSE Parsed([Inst0(opcode) EXCEPT !.rd = RegByte(ops[1]), !.rs = RegByte(ops[2]),
                                          !.rt = RegByte(ops[3])])
    ELSE IF opcode \in AsmIType \cup AsmLoadStore THEN
        IF Len(ops) < 3 THEN TooFew
        ELSE Parsed([Inst0(opcode) EXCEPT !.rt = RegByte(ops[1]), !.rs = RegByte(ops[2]),
                                          !.immediate = parse_immediate(ops[3])])
    ELSE IF opcode = OP_LUI THEN
        IF Len(ops) < 2 THEN TooFew
        ELSE Parsed([Inst0(opcode) EXCEPT !.rt = RegByte(ops[1]),
                                          !.immediate = parse_immediate(ops[2])])
    ELSE IF opcode \in AsmShifts THEN
        IF Len(ops) < 3 THEN TooFew
        ELSE Parsed([Inst0(opcode) EXCEPT !.rd = RegByte(ops[1]), !.rt = RegByte(ops[2]),
                                          !.immediate = parse_immediate(ops[3])])
    ELSE IF opcode \in AsmBranch2 THEN
        IF Len(ops) < 3 THEN TooFew
        ELSE Parsed([Inst0(opcode) EXCEPT !.rs = RegByte(ops[1]), !.rt = RegByte(ops[2]),
                                          !.immediate = BranchTarget(state, ops[3])])
    ELSE IF opcode \in AsmBranch1 THEN
        IF Len(ops) < 2 THEN TooFew
        ELSE Parsed([Inst0(opcode) EXCEPT !.rs = RegByte(ops[1]),
                                          !.immediate = BranchTarget(state, ops[2])])
    ELSE IF opcode \in AsmJumps THEN
        IF Len(ops) < 1 THEN TooFew
        ELSE Parsed([Inst0(opcode) EXCEPT !.immediate = JumpTarget(state, ops[1])])
    ELSE IF opcode = OP_JR THEN
        IF Len(ops) < 1 THEN TooFew
        ELSE Parsed([Inst0(opcode) EXCEPT !.rs = RegByte(ops[1])])
    ELSE IF opcode = OP_JALR THEN
        IF Len(ops) < 2 THEN TooFew
        ELSE Parsed([Inst0(opcode) EXCEPT !.rd = RegByte(ops[1]), !.rs = RegByte(ops[2])])
    ELSE Parsed(Inst0(opcode))

\* the end of c32_asm_assemble_line: encode in pass 2, advance the address
Emit(state, inst) ==
    IF state.pass = 2 /\ Len(state.output) + 8 > MAX_OUTPUT_SIZE
    THEN [state |-> state, ret |-> -1]
    ELSE [state |-> [state EXCEPT !.output = IF state.pass = 2 THEN @ \o Encoded(inst) ELSE @,
                                  !.current_address = @ + 8],
          ret |-> 0]

\* c32_asm_assemble_line after the label
AssembleInstruction(state, line) ==
    IF line.mn = "" THEN [state |-> state, ret |-> 0]
    ELSE IF parse_opcode(line.mn) < 0 THEN [state |-> state, ret |-> -1]
    ELSE Bind(ParseOperands(state, parse_opcode(line.mn), line.ops),
              LAMBDA p : IF p.ok THEN Emit(state, p.inst) ELSE [state |-> state, ret |-> -1])

c32_asm_assemble_line(state, line) ==
    IF line.label = <<>> THEN AssembleInstruction(state, line)
    ELSE IF Len(line.label) >= MAX_LABEL_LEN THEN [state |-> state, ret |-> -1]
    ELSE IF state.pass = 1
         THEN \* the value c32_asm_add_symbol returns is not read
              AssembleInstruction(
                  c32_asm_add_symbol(state, line.label, state.current_address).state, line)
    ELSE AssembleInstruction(state, line)

\* faulty variant, on which the property below must fail: the pass ends at the first line that fails
RECURSIVE AssembleLines_Stopping(_, _, _)
AssembleLines_Stopping(state, src, i) ==
    IF i > Len(src) THEN state
    ELSE Bind(c32_asm_assemble_line(state, src[i]),
              LAMBDA r : IF r.ret < 0 THEN [r.state EXCEPT !.errors = @ + 1]
                         ELSE AssembleLines_Stopping(r.state, src, i + 1))

\* one pass: the loop over the lines, counting the lines that fail
RECURSIVE AssembleLines(_, _, _)
AssembleLines(state, src, i) ==
    IF i > Len(src) THEN state
    ELSE Bind(c32_asm_assemble_line(state, src[i]),
              LAMBDA r : AssembleLines(IF r.ret < 0 THEN [r.state EXCEPT !.errors = @ + 1]
                                       ELSE r.state,
                                       src, i + 1))

StartPass(state, pass) ==
    [state EXCEPT !.pass = pass, !.current_address = 0, !.output = <<>>]

\* pass 2 and the writing of the output file
SecondPass(s1, src) ==
    Bind(AssembleLines(StartPass(s1, 2), src, 1),
         LAMBDA s2 : IF s2.errors > 0
                     THEN [state |-> s2, ret |-> -1, passes |-> 2, written |-> FALSE]
                     ELSE [state |-> s2, ret |-> 0, passes |-> 2, written |-> TRUE])

\* c32_asm_assemble_file on a file that opens: the return value, the passes
\* run and whether the output file was written (with state.output)
c32_asm_assemble_file(state, src) ==
    Bind(AssembleLines(StartPass(state, 1), src, 1),
         LAMBDA s1 : IF s1.errors > 0
                     THEN [state |-> s1, ret |-> -1, passes |-> 1, written |-> FALSE]
                     ELSE SecondPass(s1, src))

(***************************************************************************)
(* Source files.  DecText writes a number as the author would; the tokens  *)
(* of a line are the texts of its operands.                                *)
(***************************************************************************)
RECURSIVE DecText(_)
DecText(n) == IF n < 10 THEN <<DecChars[n + 1]>>
              ELSE DecText(n \div 10) \o <<DecChars[(n % 10) + 1]>>

Rg(n) == [kind |-> "reg", n |-> n, tok |-> <<"R">> \o DecText(n)]
Nm(v) == [kind |-> "num", v |-> v,
          tok |-> IF v < 0 THEN <<"-">> \o DecText(0 - v) ELSE DecText(v)]
Lb(name) == [kind |-> "label", name |-> name, tok |-> name]
\* an operand in a register position that names no register
Bad(tok) == [kind |-> "badreg", tok |-> tok]

\* sp, 0x1F, +12
ArgSp == [kind |-> "reg", n |-> 29, tok |-> <<"s", "p">>]
ArgHex == [kind |-> "num", v |-> 31, tok |-> <<"0", "x", "1", "F">>]
ArgPlus == [kind |-> "num", v |-> 12, tok |-> <<"+", "1", "2">>]

Line(label, mn, args) ==
    [label |-> label, mn |-> mn, ops |-> [i \in 1..Len(args) |-> args[i].tok],
     args |-> args]

fwd == <<"f", "w", "d">>
back == <<"b", "a", "c", "k">>
fn == <<"f", "n">>
nowhere == <<"n", "o", "w", "h", "e", "r", "e">>

\* one instruction, operands registers and numbers
OperandSrcs ==
    {<<Line(<<>>, mn, args)>> :
        mn \in {"ADD", "ADDU", "SUB", "SUBU", "AND", "OR", "XOR", "NOR", "SLT", "SLTU",
                "MUL", "MULH", "MULHU", "DIV", "DIVU", "REM", "REMU", "SLLV", "SRLV", "SRAV"},
        args \in {<<Rg(3), Rg(1), Rg(2)>>, <<Rg(31), ArgSp, Rg(10)>>}}
    \cup {<<Line(<<>>, mn, args)>> :
        mn \in {"ADDI", "ADDIU", "ANDI", "ORI", "XORI", "SLTI", "SLTIU",
                "LW", "LH", "LHU", "LB", "LBU", "SW", "SH", "SB"},
        args \in {<<Rg(2), Rg(1), Nm(16)>>, <<Rg(2), ArgSp, Nm(-8)>>, <<Rg(2), Rg(1), ArgHex>>}}
    \cup {<<Line(<<>>, mn, <<Rg(3), Rg(2), Nm(5)>>)>> : mn \in {"SLL", "SRL", "SRA"}}
    \cup {<<Line(<<>>, mn, <<Rg(1), Rg(2), n>>)>> :
        mn \in {"BEQ", "BNE"}, n \in {Nm(16), Nm(-16)}}
    \cup {<<Line(<<>>, mn, <<Rg(1), n>>)>> :
        mn \in {"BLEZ", "BGTZ", "BLTZ", "BGEZ"}, n \in {Nm(16), Nm(-16)}}
    \cup {<<Line(<<>>, mn, <<n>>)>> : mn \in {"J", "JAL"}, n \in {Nm(64), Nm(4096)}}
    \cup {<<Line(<<>>, mn, <<>>)>> :
        mn \in {"NOP", "EI", "DI", "IRET", "SYSCALL", "BREAK", "ENABLE_PAGING",
                "DISABLE_PAGING", "ENTER_USER"}}
    \cup {<<Line(<<>>, "LUI", <<Rg(2), Nm(4660)>>)>>,
          <<Line(<<>>, "LUI", <<Rg(2), ArgPlus>>)>>,
          <<Line(<<>>, "JR", <<Rg(5)>>)>>,
          <<Line(<<>>, "JALR", <<Rg(3), Rg(5)>>)>>,
          <<Line(<<>>, "RAISE", <<Nm(3)>>)>>,
          <<Line(<<>>, "GETPC", <<Rg(5)>>)>>,
          <<Line(<<>>, "GETMODE", <<Rg(5)>>)>>,
          <<Line(<<>>, "SET_PTBR", <<Rg(1), Rg(2)>>)>>}

\* the operands of the branch mn testing R1 (against R0) with target label
BranchArgs(mn, label) ==
    IF mn \in {"BEQ", "BNE"} THEN <<Rg(1), Rg(0), Lb(label)>> ELSE <<Rg(1), Lb(label)>>

\*       ADDI R1, R0, v
\* back: ADDI R2, R2, 1
\*       Bxx  R1, [R0,] fwd or back
\*       ADDI R3, R0, 7
\* fwd:
\*       NOP
BranchSrcs ==
    {<<Line(<<>>, "ADDI", <<Rg(1), Rg(0), Nm(v)>>),
       Line(back, "ADDI", <<Rg(2), Rg(2), Nm(1)>>),
       Line(<<>>, mn, BranchArgs(mn, label)),
       Line(<<>>, "ADDI", <<Rg(3), Rg(0), Nm(7)>>),
       Line(fwd, "", <<>>),
       Line(<<>>, "NOP", <<>>)>> :
        v \in {-1, 0, 1},
        mn \in {"BEQ", "BNE", "BLEZ", "BGTZ", "BLTZ", "BGEZ"},
        label \in {fwd, back}}

\*       J    fwd            |       JAL  fn
\* fn:   ADDI R2, R0, 5      |       J    fwd
\*       JR   R31            | fn:   ADDI R2, R0, 5
\* fwd:  JAL  fn             |       JR   R31
\*       ADDI R3, R0, 7      | fwd:  NOP
\*                           | back: J    back
JumpSrcs ==
    {<<Line(<<>>, "J", <<Lb(fwd)>>),
       Line(fn, "ADDI", <<Rg(2), Rg(0), Nm(5)>>),
       Line(<<>>, "JR", <<Rg(31)>>),
       Line(fwd, "JAL", <<Lb(fn)>>),
       Line(<<>>, "ADDI", <<Rg(3), Rg(0), Nm(7)>>)>>,
     <<Line(<<>>, "JAL", <<Lb(fn)>>),
       Line(<<>>, "J", <<Lb(fwd)>>),
       Line(fn, "ADDI", <<Rg(2), Rg(0), Nm(5)>>),
       Line(<<>>, "JR", <<Rg(31)>>),
       Line(fwd, "NOP", <<>>),
       Line(back, "J", <<Lb(back)>>)>>}

\* a label defined twice, with and without a reference to it
DupSrcs ==
    {<<Line(fn, "ADDI", <<Rg(1), Rg(0), Nm(1)>>),
       Line(fn, "ADDI", <<Rg(2), Rg(0), Nm(2)>>)>>,
     <<Line(fn, "ADDI", <<Rg(1), Rg(0), Nm(1)>>),
       Line(<<>>, "BEQ", <<Rg(0), Rg(0), Lb(fn)>>),
       Line(fn, "ADDI", <<Rg(2), Rg(0), Nm(2)>>),
       Line(<<>>, "NOP", <<>>)>>}

\* a branch or jump to a name that no line defines
UndefSrcs ==
    {<<Line(fwd, "ADDI", <<Rg(1), Rg(0), Nm(1)>>),
       Line(<<>>, mn, IF mn \in {"J", "JAL"} THEN <<Lb(nowhere)>>
                      ELSE BranchArgs(mn, nowhere)),
       Line(<<>>, "NOP", <<>>)>> :
        mn \in {"BEQ", "BNE", "BLEZ", "BGTZ", "BLTZ", "BGEZ", "J", "JAL"}}

\* lines the assembler rejects: an unknown mnemonic, an operand missing, a
\* label of MAX_LABEL_LEN characters; with lines and labels after them
BadSrcs ==
    {<<Line(<<>>, "MOV", <<Rg(1), Rg(2)>>)>>,
     <<Line(fwd, "ADD", <<Rg(1), Rg(2)>>), Line(<<>>, "NOP", <<>>)>>,
     <<Line(<<>>, "MOV", <<Rg(1), Rg(2)>>), Line(back, "NOP", <<>>),
       Line(<<>>, "LW", <<Rg(1)>>), Line(fn, "JR", <<Rg(31)>>)>>,
     <<Line([i \in 1..MAX_LABEL_LEN |-> "a"], "NOP", <<>>), Line(fwd, "NOP", <<>>)>>}

\* register operands that name no register: R32, r99, x5, foo
BadRegSrcs ==
    {<<Line(<<>>, "ADD", <<Bad(<<"R", "3", "2">>), Rg(1), Rg(2)>>)>>,
     <<Line(<<>>, "ADDI", <<Rg(2), Bad(<<"f", "o", "o">>), Nm(4)>>)>>,
     <<Line(<<>>, "SW", <<Rg(1), Bad(<<"x", "5">>), Nm(0)>>)>>,
     <<Line(<<>>, "NOP", <<>>), Line(<<>>, "SLL", <<Rg(3), Bad(<<"r", "9", "9">>), Nm(5)>>)>>}

AsmSources ==
    OperandSrcs \cup BranchSrcs \cup JumpSrcs \cup DupSrcs \cup UndefSrcs \cup BadSrcs
    \cup BadRegSrcs

\* the addresses the image is loaded at
AsmBases == {LoadAddr, 2 * LoadAddr, 24}

(***************************************************************************)
(* SpecAsm: a source file is assembled; if the output file was written it  *)
(* is loaded at a base address as the VM's main does, and stepped at most  *)
(* MaxAsmSteps times, each step fetching its word from memory at PC.       *)
(* ev.asm keeps the assembly: src, ret, passes, written, output, symbols,  *)
(* base.                                                                   *)
(***************************************************************************)
MaxAsmSteps == 4

InitAsm ==
    /\ vm = c32_vm_init(<<>>)
    /\ ev = EvOf("init")
    /\ loop = "host"
    /\ active = FALSE
    /\ nsteps = 0

\* c32_asm_init and c32_asm_assemble_file, as main of c32asm.c calls them
Assemble ==
    /\ ev.call = "init"
    /\ \E src \in AsmSources : \E r \in {c32_asm_assemble_file(c32_asm_init, src)} :
         ev' = EvOf("assemble") @@
               [asm |-> [src |-> src, ret |-> r.ret, passes |-> r.passes,
                         written |-> r.written, output |-> r.state.output,
                         symbols |-> r.state.symbols, errors |-> r.state.errors,
                         base |-> -1]]
    /\ UNCHANGED <<vm, loop, active, nsteps>>

\* load_binary_file at load_addr, vm.pc = load_addr, vm.running = 1
LoadImage ==
    /\ ev.call = "assemble"
    /\ ev.asm.written
    /\ \E base \in AsmBases :
         /\ vm' = [c32_vm_init(StoreBytes(<<>>, base, ev.asm.output))
                      EXCEPT !.pc = W(base), !.running = TRUE]
         /\ ev' = EvOf("load") @@ [asm |-> [ev.asm EXCEPT !.base = base]]
    /\ UNCHANGED <<loop, active, nsteps>>

\* the 8 bytes of memory at offset a
WordAt(m, a) ==
    <<ReadByte(m, a), ReadByte(m, a + 1), ReadByte(m, a + 2), ReadByte(m, a + 3),
      ReadByte(m, a + 4), ReadByte(m, a + 5), ReadByte(m, a + 6), ReadByte(m, a + 7)>>

\* one call of c32_vm_step on the loaded image
AsmStep ==
    /\ ev.call \in {"load", "step"}
    /\ vm.running
    /\ nsteps < MaxAsmSteps
    /\ \E g \in Garbage :
       \E r \in {c32_vm_step(vm, IF Small(vm.pc) THEN WordAt(vm.memory, Val(vm.pc))
                                 ELSE NoInst, g)} :
         /\ g = G0 \/ r.ev.ub # {}
         /\ vm' = r.vm
         /\ ev' = r.ev @@ [asm |-> ev.asm]
         /\ nsteps' = nsteps + 1
    /\ UNCHANGED <<loop, active>>

NextAsm == Assemble \/ LoadImage \/ AsmStep

SpecAsm == InitAsm /\ [][NextAsm]_vars

(***************************************************************************)
(* Properties                                                              *)
(***************************************************************************)
\* a transition made by one call of c32_vm_step
StepTaken == nsteps' = nsteps + 1

PrivilegedOps ==
    {OP_EI, OP_DI, OP_IRET, OP_ENABLE_PAGING, OP_DISABLE_PAGING, OP_SET_PTBR, OP_ENTER_USER}

\* C1: after every call of c32_vm_step that returns success (0), whatever the
\* instruction word and the state before, R0 is 0.
C1_R0ZeroAfterStep == (ev.call = "step" /\ ev.ret = 0) => vm.regs[0] = W(0)

\* C1, its case: a kernel-mode IRET restored the registers from a block whose
\* first word (the saved R0) is not zero, and the step returned success.
C1_IretRestoredNonZeroR0 ==
    /\ ev.call = "step" /\ ev.ret = 0
    /\ IretExecuted(ev)
    /\ InBounds(vm.saved_regs_addr, 128)
    /\ c32_read_word(vm.memory, Val(vm.saved_regs_addr)) # W(0)
    /\ vm.regs[1] = c32_read_word(vm.memory, Val(vm.saved_regs_addr) + 4)
    /\ vm.regs[0] = W(0)

\* C2 as stated: every call of c32_vm_step begins with PC a multiple of 8
\* (here: whenever the call before it met no undefined behaviour).
C2_PCAlignedAtCycleStart == [][(StepTaken /\ ev.ub = {}) => vm.pc[2] % 8 = 0]_vars

\* C2, amended: an instruction is fetched and executed only at a PC that is a
\* multiple of 8; a step that finds PC misaligned at its alignment test sets
\* pending bit 2, executes nothing and returns failure.
C2_FetchOnlyAligned ==
    ev.call = "step" =>
        /\ ev.exec => ev.fetch_pc[2] % 8 = 0
        /\ ev.fetch_pc[2] % 8 # 0 => (~ev.exec /\ ev.ret = -1 /\ 2 \in vm.pending)

\* C2, its case: a jump left PC misaligned and the next step refused it.
C2_MisalignedRefused ==
    /\ ev.call = "step" /\ ev.fetch_pc[2] % 8 # 0 /\ ev.disp = -1
    /\ ev.ret = -1 /\ 2 \in vm.pending /\ vm.pc = ev.fetch_pc

\* C3: a privileged instruction executed with kernel_mode = false sets pending
\* bit 7, advances PC by 8 and changes nothing else of the machine (enabled,
\* paging, page table, mode, saved_pc, registers, memory, running); the step
\* returns success.
C3_UserModePrivileged ==
    [][(StepTaken /\ ev'.exec /\ ~ev'.km_exec /\ ev'.inst[1] \in PrivilegedOps)
        => /\ vm' = [vm EXCEPT !.pending = @ \cup {7}, !.pc = Add32(@, W(8))]
           /\ ev'.ret = 0]_vars

\* C3, its case: SET_PTBR naming non-zero registers was executed in user mode
\* and the step returned success with bit 7 pending.
C3_UserSetPtbr ==
    /\ ev.call = "step" /\ ev.exec /\ ~ev.km_exec /\ ev.inst[1] = OP_SET_PTBR
    /\ ev.ret = 0 /\ 7 \in vm.pending /\ ~vm.kernel_mode /\ vm.running

\* the reference policy of translation: the four PTE bytes at
\* page_table_base + 4 * page_num (as integers) lie inside the memory
PTEInsideMemory(ptb, page_num) ==
    /\ Small(ptb) /\ Val(ptb) <= MemSize
    /\ Val(ptb) + 4 * page_num + 4 <= MemSize

RefFaults(v, vaddr, is_write, is_exec) ==
    LET page_num == Val(Shr32(vaddr, 12))
        pte      == c32_read_word(v.memory, Val(v.page_table_base) + 4 * page_num)
    IN  \/ ~Ltu(Shr32(vaddr, 12), v.num_pages)
        \/ ~PTEInsideMemory(v.page_table_base, page_num)
        \/ Bit16(pte[2], 0) = 0
        \/ Bit16(pte[2], 3) = 0
        \/ (is_write /\ Bit16(pte[2], 1) = 0)
        \/ (is_exec /\ Bit16(pte[2], 2) = 0)

RefPhys(v, vaddr) ==
    LET pte == c32_read_word(v.memory, Val(v.page_table_base) + 4 * Val(Shr32(vaddr, 12)))
    IN  <<pte[1], ((pte[2] \div 4096) * 4096) + (vaddr[2] % 4096)>>

\* C4 as stated: translate_address returns vaddr and raises nothing in kernel
\* mode or with paging off; otherwise it returns 0xFFFFFFFF and sets pending
\* bit 8 exactly when page_num >= num_pages, or the PTE bytes are not fully
\* inside memory, or V = 0, or U = 0, or a write with W = 0, or a fetch with
\* X = 0; and otherwise returns (pte & 0xFFFFF000) | (vaddr & 0xFFF) and raises
\* nothing.
C4_TranslateIsReferencePolicy ==
    ev.call = "translate" =>
        \A t \in ev.xl :
            IF vm.kernel_mode \/ ~vm.paging_enabled
            THEN t.phys = t.vaddr /\ ev.raised = {}
            ELSE IF RefFaults(vm, t.vaddr, t.w, t.x)
            THEN t.phys = FAULT /\ ev.raised = {8} /\ 8 \in vm.pending
            ELSE t.phys = RefPhys(vm, t.vaddr) /\ ev.raised = {}

\* C5 as stated: a translation result other than the sentinel is below
\* memory_size.
C5_PhysBelowMemorySize ==
    ev.call = "translate" =>
        \A t \in ev.xl : (ev.ub = {} /\ t.phys # FAULT) => Ltu(t.phys, MemorySize)

\* C5, amended: a translation result other than the sentinel is not bounded by
\* memory_size: in kernel mode or with paging off it is the virtual address
\* itself, whatever its value, and in user mode with paging on it is the offset
\* of the virtual address placed in the frame the PTE names, whatever the frame.
C5_PhysIsAddressOrFrame ==
    ev.call = "translate" =>
        \A t \in ev.xl : t.phys # FAULT =>
            IF vm.kernel_mode \/ ~vm.paging_enabled
            THEN t.phys = t.vaddr
            ELSE /\ t.phys[2] % 4096 = t.vaddr[2] % 4096
                 /\ ev.ub = {} =>
                       \E pte \in {c32_read_word(vm.memory,
                                       Val(Add32(vm.page_table_base,
                                                 Shl32(Shr32(t.vaddr, 12), 2))))} :
                           /\ t.phys[1] = pte[1]
                           /\ t.phys[2] \div 4096 = pte[2] \div 4096

\* C5, its case: a user-mode translation through a valid PTE whose frame
\* (0xF0000) lies past the memory returned an address above memory_size.
C5_FramePastMemory ==
    /\ ev.call = "translate" /\ ev.ub = {}
    /\ ~vm.kernel_mode /\ vm.paging_enabled
    /\ [vaddr |-> W(4 * 4096 + 4), w |-> TRUE, x |-> FALSE, phys |-> U32(15, 4)] \in ev.xl

\* C6 as stated: while a handler is executing (from a dispatch to the IRET
\* that ends it) enabled = false and kernel_mode = true.
C6_HandlerRunsMasked == (active /\ ev.ub = {}) => (~vm.enabled /\ vm.kernel_mode)

\* C6, amended: a dispatch leaves enabled = false and kernel_mode = true, the
\* handler's instructions execute in that state and keep it, until the handler
\* itself executes EI, ENTER_USER or IRET.
C6_MaskedUntilHandlerUnmasks ==
    [][(/\ StepTaken
        /\ ev'.disp >= 0 \/ (active /\ ~vm.enabled /\ vm.kernel_mode)
        /\ ev'.exec => ev'.inst[1] \notin {OP_EI, OP_ENTER_USER, OP_IRET})
        => /\ ~vm'.enabled /\ vm'.kernel_mode
           /\ ev'.exec => ev'.km_exec]_vars

\* C6, its case: an interrupt was dispatched out of user mode and the handler's
\* first instruction executed in kernel mode with interrupts disabled.
C6_DispatchedFromUserMode ==
    /\ ev.call = "step" /\ ev.disp = 7 /\ ev.exec /\ ev.inst[1] = OP_NOP
    /\ active /\ ~vm.enabled /\ vm.kernel_mode

\* C7 as stated: while a handler is executing the 128 bytes at saved_regs_addr
\* lie inside the memory: saved_regs_addr + 128 <= memory_size.
C7_SaveRegionInsideMemory == active => InBounds(vm.saved_regs_addr, 128)

\* C8 as stated: an interrupt n in 0..254 raised by the instruction of one step
\* (the VM still running) is the one the very next step dispatches.
C8_RaisedThenDispatched ==
    [][(StepTaken /\ ev.call = "step" /\ ev.exec /\ ev.ub = {} /\ vm.running)
        => \A n \in ev.raised : n < 255 => ev'.disp = n]_vars

\* C8, amended: after the instruction of one step raised n in 0..254 (the VM
\* still running), the very next step dispatches, before it fetches, the
\* lowest-numbered pending interrupt when interrupts are enabled (n itself when
\* no lower one is pending), and dispatches nothing, n staying pending, when
\* they are disabled.
C8_RaisedThenDispatchedIfEnabled ==
    [][(StepTaken /\ ev.call = "step" /\ ev.exec /\ vm.running)
        => \A n \in ev.raised : n < 255 =>
             IF vm.enabled
             THEN /\ ev'.disp \in vm.pending
                  /\ \A k \in vm.pending : ev'.disp <= k
                  /\ (\A k \in vm.pending : n <= k) => ev'.disp = n
             ELSE ev'.disp = -1 /\ n \in vm'.pending]_vars

\* C8, its case: the instruction of the first step (at LoadAddr + 56 in user
\* mode with paging) faulted on its data access, and the second step
\* dispatched interrupt 8 before fetching at LoadAddr + 64.
C8_PageFaultDispatchedNext ==
    /\ ev.call = "step" /\ nsteps = 2 /\ ev.disp = 8 /\ ev.exec
    /\ vm.saved_pc = W(LoadAddr + 64) /\ vm.pending = {}

C10_LowestPendingDispatched ==
    [][(StepTaken /\ vm.enabled /\ Scanned(vm.pending) # {})
        => /\ ev'.disp \in Scanned(vm.pending)
           /\ \A k \in Scanned(vm.pending) : ev'.disp <= k
           /\ vm'.pending = (vm.pending \ {ev'.disp}) \cup ev'.raised]_vars

\* C10, its case: two interrupts were pending, the lower one was dispatched
\* and the higher one is still pending.
C10_HigherStaysPending ==
    /\ ev.call = "step" /\ ev.disp = 3 /\ ev.raised = {}
    /\ vm.pending = {9}

\* C11: a step that begins with enabled = false dispatches nothing, whatever
\* is pending: check_interrupts returns 0 with the whole machine (pending,
\* saved_pc, saved_regs_addr, R29, R4, kernel_mode and the rest) as it was,
\* the step tests and fetches at the PC it began with, in the mode it began
\* with, no pending bit is cleared by the step and saved_pc and
\* saved_regs_addr are the same after it.
C11_NoDispatchWhileDisabled ==
    [][(StepTaken /\ ~vm.enabled)
        => /\ \E ci \in {check_interrupts([vm |-> vm, ev |-> EvOf("step")])} :
                ci.ret = 0 /\ ci.c.vm = vm /\ ci.c.ev.disp = -1
           /\ ev'.disp = -1
           /\ ev'.fetch_pc = vm.pc
           /\ ev'.km_exec = vm.kernel_mode
           /\ vm'.pending = vm.pending \cup ev'.raised
           /\ vm'.saved_pc = vm.saved_pc
           /\ vm'.saved_regs_addr = vm.saved_regs_addr]_vars

\* C11, its case: inside a handler, with interrupts disabled and an interrupt
\* of 0..254 pending, a step executed a NOP and dispatched nothing.
C11_PendingKeptInHandler ==
    /\ ev.call = "step" /\ ev.exec /\ ev.inst[1] = OP_NOP /\ ev.disp = -1
    /\ active /\ ~vm.enabled /\ Scanned(vm.pending) # {} /\ ev.raised = {}

C13_RegisterIndexInArray ==
    (ev.call = "step" /\ ev.exec)
    => /\ "regidx" \notin ev.ub
       /\ ev.inst[1] \in OpsRsRtRd => vm.pc = Add32(ev.fetch_pc, W(8))

\* C14 as stated: a source operand is read as the register held it before the
\* instruction, register 0 as 0, also when the instruction names the same
\* register as its destination: JR rs and JALR rd, rs set PC to the value rs
\* held before the instruction (JALR R0, R0 sets PC to 0).
C14_SourceReadBeforeWrite ==
    [][(/\ StepTaken /\ ev'.exec /\ ev'.disp = -1 /\ ev'.ub = {}
        /\ ev'.inst[1] \in {OP_JR, OP_JALR})
        => /\ vm.regs[0] = W(0)
           /\ vm'.pc = vm.regs[ev'.inst[2]]]_vars

\* the pending bit of a halting opcode byte
HaltBit(opcode) == IF opcode = OP_SYSCALL THEN 4 ELSE IF opcode = OP_BREAK THEN 5 ELSE 1

\* C15: an executed instruction (its register bytes inside 0..31) clears
\* running if and only if its opcode byte is SYSCALL, BREAK or a byte with no
\* defined instruction; it then sets pending bit 4, 5 or 1 and nothing else,
\* and the step returns success with PC at the fetch address + 8.
C15_HaltsOnlyOnSyscallBreakUndefined ==
    (ev.call = "step" /\ ev.exec /\ ev.ub = {})
    => /\ ~vm.running <=> ev.inst[1] \in {OP_SYSCALL, OP_BREAK} \cup ((0..255) \ DefinedOps)
       /\ ~vm.running => /\ ev.raised = {HaltBit(ev.inst[1])}
                         /\ HaltBit(ev.inst[1]) \in vm.pending
                         /\ ev.ret = 0
                         /\ vm.pc = Add32(ev.fetch_pc, W(8))

\* C15, its case: the undefined opcode byte 0xFA was executed in user mode.
C15_UndefinedOpcodeHalts ==
    /\ ev.call = "step" /\ ev.exec /\ ev.inst[1] = 250 /\ ~ev.km_exec
    /\ ~vm.running /\ vm.pending = {1} /\ ev.ret = 0

\* the upper 32 bits of the 64-bit unsigned product, from 16-bit partial
\* products, and of the signed product (the unsigned one less b when a is
\* negative and less a when b is negative, modulo 2^32)
MulhuRef(a, b) ==
    LET p00 == Mul16(a[2], b[2])
        p01 == Mul16(a[2], b[1])
        p10 == Mul16(a[1], b[2])
        p11 == Mul16(a[1], b[1])
    IN  Add32(Add32(p11, W(p01[1])),
              Add32(W(p10[1]), W((p00[1] + p01[2] + p10[2]) \div Half)))

MulhRef(a, b) ==
    Sub32(Sub32(MulhuRef(a, b), IF Neg(a) THEN b ELSE W(0)), IF Neg(b) THEN a ELSE W(0))

\* C16 as stated: MULH writes to rd the upper 32 bits of the signed 64-bit
\* product of regs[rs] and regs[rt], MULHU those of the unsigned product
\* (65536 * 65536 gives 1 for both).
C16_MulHighIsUpperWord ==
    [][(/\ StepTaken /\ ev'.exec /\ ev'.ub = {} /\ ev'.disp = -1
        /\ ev'.inst[1] \in {OP_MULH, OP_MULHU}
        /\ ev'.inst[2] \in 0..31 /\ ev'.inst[3] \in 0..31 /\ ev'.inst[4] \in 1..31)
        => vm'.regs[ev'.inst[4]] =
             IF ev'.inst[1] = OP_MULH
             THEN MulhRef(vm.regs[ev'.inst[2]], vm.regs[ev'.inst[3]])
             ELSE MulhuRef(vm.regs[ev'.inst[2]], vm.regs[ev'.inst[3]])]_vars

\* C17: DIV, DIVU, REM and REMU executed with regs[rt] = 0 (register bytes
\* inside 0..31) set rd to 0 whatever regs[rs] is, leave every other register,
\* the pending bits and running as they were, raise nothing, and the step
\* returns success with PC at the fetch address + 8.
C17_DivisionByZeroYieldsZero ==
    [][(/\ StepTaken /\ ev'.exec /\ ev'.disp = -1
        /\ ev'.inst[1] \in {OP_DIV, OP_DIVU, OP_REM, OP_REMU}
        /\ ev'.inst[2] \in 0..31 /\ ev'.inst[3] \in 0..31 /\ ev'.inst[4] \in 0..31
        /\ vm.regs[ev'.inst[3]] = W(0))
        => /\ vm'.regs = [vm.regs EXCEPT ![ev'.inst[4]] = W(0)]
           /\ ev'.raised = {} /\ vm'.pending = vm.pending /\ ev'.ub = {}
           /\ vm'.running = vm.running
           /\ ev'.ret = 0
           /\ vm'.pc = Add32(ev'.fetch_pc, W(8))]_vars

\* C17, its case: REM R1, R1, R2 was executed in user mode with R2 = 0, and
\* R1, which no start state has at 0, is 0 after it.
C17_RemByZeroClearsRd ==
    /\ ev.call = "step" /\ ev.exec /\ ev.inst[1] = OP_REM
    /\ ev.inst[2] = 1 /\ ev.inst[3] = 2 /\ ev.inst[4] = 1
    /\ vm.regs[2] = W(0) /\ vm.regs[1] = W(0) /\ ev.ret = 0 /\ vm.pending = {}
    /\ vm.running /\ ~vm.kernel_mode

\* C18: a load (LW, LH, LHU, LB, LBU) executed in user mode with paging on
\* whose address is one the page table refuses to a user-mode read (page
\* number past num_pages, V = 0 or U = 0) sets pending bit 8, advances PC by
\* 8 and changes nothing else of the machine: rt and every other register,
\* the memory, running; the step returns success.
C18_FaultingLoadLeavesRegisters ==
    [][(/\ StepTaken /\ ev'.exec /\ ~ev'.km_exec /\ vm.paging_enabled
        /\ ev'.inst[1] \in LoadOps
        /\ \E t \in ev'.xl : ~t.x /\ RefFaults(vm, t.vaddr, FALSE, FALSE))
        => /\ vm' = [vm EXCEPT !.pending = @ \cup {8}, !.pc = Add32(@, W(8))]
           /\ ev'.raised = {8}
           /\ ev'.ret = 0]_vars

\* C18, its case: LH R2, 0(R1) in user mode with R1 in page 3, whose PTE has
\* V = 0: bit 8 is pending and R2 still holds 0x89ABCDEF.
C18_LoadFromInvalidPage ==
    /\ ev.call = "step" /\ ev.exec /\ ~ev.km_exec /\ ev.inst[1] = OP_LH /\ ev.inst[3] = 2
    /\ [vaddr |-> W(3 * 4096), w |-> FALSE, x |-> FALSE, phys |-> FAULT] \in ev.xl
    /\ vm.pending = {8} /\ vm.regs[2] = U32(35243, 52719) /\ ev.ret = 0 /\ vm.running

\* what a load of the given opcode returns of the register value v stored
\* with the same width
Reloaded(opcode, v) ==
    IF opcode = OP_LW THEN v
    ELSE IF opcode = OP_LHU THEN <<0, v[2]>>
    ELSE IF opcode = OP_LH THEN (IF v[2] >= 32768 THEN <<65535, v[2]>> ELSE <<0, v[2]>>)
    ELSE IF opcode = OP_LBU THEN <<0, v[2] % 256>>
    ELSE (IF v[2] % 256 >= 128 THEN <<65535, 65280 + (v[2] % 256)>> ELSE <<0, v[2] % 256>>)

\* C19: a store that was made, followed in the next step (no interrupt
\* dispatched in between, same mode, paging state and page table) by a load of
\* the same width at the same effective address that is made, into a register
\* other than R0: the load returns the stored register value, all 32 bits for
\* LW, the low 16 or 8 bits zero-extended for LHU and LBU and sign-extended
\* for LH and LB.
C19_LoadReturnsStoredValue ==
    [][(/\ StepTaken
        /\ ev.call = "step" /\ ev.exec /\ ev.inst[1] \in StoreOps /\ ev.ub = {}
        /\ ev.inst[3] \in 0..31
        /\ \E a \in ev.acc : a.kind = "store"
        /\ ev'.exec /\ ev'.inst[1] \in LoadOps /\ ev'.ub = {} /\ ev'.disp = -1
        /\ ev'.inst[3] \in 1..31
        /\ Width(ev'.inst[1]) = Width(ev.inst[1])
        /\ \E a \in ev'.acc : a.kind = "load"
        /\ ev'.km_exec = ev.km_exec
        /\ \E st \in ev.xl, ld \in ev'.xl : ~st.x /\ ~ld.x /\ st.vaddr = ld.vaddr)
        => vm'.regs[ev'.inst[3]] = Reloaded(ev'.inst[1], vm.regs[ev.inst[3]])]_vars

\* C19, its case: in user mode SH R2, 2(R1) stored the low half of 0x89ABCDEF
\* at 0x102 and LH R3, 2(R1) returned 0xFFFFCDEF.
C19_HalfwordStoredThenLoadedSigned ==
    /\ ev.call = "step" /\ ev.exec /\ ~ev.km_exec /\ ev.inst[1] = OP_LH /\ ev.inst[3] = 3
    /\ nsteps = MaxExec + 1 /\ ev.disp = -1
    /\ [phys |-> W(258), n |-> 2, kind |-> "load"] \in ev.acc
    /\ c32_read_word(vm.memory, 256) = U32(52719, 0)
    /\ vm.regs[2] = U32(35243, 52719)
    /\ vm.regs[3] = U32(65535, 52719)

\* C20 as stated: a load or store (register bytes inside 0..31) touches only
\* bytes inside the memory; when the 1, 2 or 4 bytes at the translated
\* address are not all inside it, also when address + width passes 2^32, the
\* access is not made: registers and memory stay as they were, nothing is
\* raised and the step returns success.
C20_AccessInsideMemory ==
    [][(/\ StepTaken /\ ev'.exec /\ ev'.disp = -1
        /\ ev'.inst[1] \in LoadOps \cup StoreOps
        /\ ev'.inst[2] \in 0..31 /\ ev'.inst[3] \in 0..31)
        => /\ \A a \in ev'.acc : a.kind \in {"load", "store"} => InBounds(a.phys, a.n)
           /\ \A t \in ev'.xl :
                 (~t.x /\ t.phys # FAULT /\ ~InBounds(t.phys, Width(ev'.inst[1])))
                 => /\ vm'.regs = vm.regs /\ vm'.memory = vm.memory
                    /\ ev'.raised = {} /\ ev'.ub = {} /\ ev'.ret = 0]_vars

(***************************************************************************)
(* C21.  The page table and guest memory                                   *)
(***************************************************************************)
\* the page table, num_pages * 4 bytes at page_table_base, lies inside memory
TableInsideMemory(m) ==
    /\ Small(m.page_table_base) /\ Small(m.num_pages)
    /\ Val(m.page_table_base) + 4 * Val(m.num_pages) <= MemSize

\* C21 as stated: whenever paging is enabled, page_table_base + num_pages * 4
\* <= memory_size.
C21_PageTableInsideMemory == vm.paging_enabled => TableInsideMemory(vm)

\* C21, amended: SET_PTBR executed in kernel mode stores regs[rd] and regs[rt]
\* as they are, whatever their values, and ENABLE_PAGING executed in kernel
\* mode sets the flag and leaves the two fields alone, whatever they hold; so
\* nothing keeps the table inside memory while paging is enabled.
C21_PagingOpsStoreUnchecked ==
    [][(StepTaken /\ ev'.exec /\ ev'.km_exec /\ ev'.ub = {})
       => \E ci \in {check_interrupts([vm |-> vm, ev |-> EvOf("step")])} :
            /\ (ev'.inst[1] = OP_SET_PTBR /\ ev'.inst[3] \in 0..31 /\ ev'.inst[4] \in 0..31)
               => /\ vm'.page_table_base = ci.c.vm.regs[ev'.inst[4]]
                  /\ vm'.num_pages = ci.c.vm.regs[ev'.inst[3]]
                  /\ vm'.paging_enabled = vm.paging_enabled
            /\ ev'.inst[1] = OP_ENABLE_PAGING
               => /\ vm'.paging_enabled
                  /\ vm'.page_table_base = vm.page_table_base
                  /\ vm'.num_pages = vm.num_pages]_vars

\* ENABLE_PAGING has just turned paging on over a table that SET_PTBR placed
\* past the end of memory
C21_PagingOnTablePastMemory ==
    /\ ev.call = "step" /\ ev.exec /\ ev.inst[1] = OP_ENABLE_PAGING
    /\ vm.paging_enabled /\ ~TableInsideMemory(vm)

C23_ResetZeroesAllButMemory ==
    [][ev'.call = "reset"
       => /\ \A i \in 0..31 : vm'.regs[i] = W(0)
          /\ vm'.pc = W(0)
          /\ ~vm'.running
          /\ vm'.kernel_mode
          /\ ~vm'.paging_enabled /\ vm'.page_table_base = W(0) /\ vm'.num_pages = W(0)
          /\ ~vm'.enabled /\ vm'.pending = {}
          /\ vm'.saved_pc = W(0) /\ vm'.saved_regs_addr = W(0)
          /\ vm'.memory = vm.memory]_vars

(***************************************************************************)
(* C24.  EI; DI                                                            *)
(***************************************************************************)
\* the last two steps executed EI and then DI, both in kernel mode
EiThenDi ==
    /\ nsteps >= 2
    /\ ev.prev.exec /\ ev.prev.km_exec /\ ev.prev.inst[1] = OP_EI
    /\ ev.exec /\ ev.km_exec /\ ev.inst[1] = OP_DI

\* C24 as stated: EI and then DI executed in two consecutive step cycles in
\* kernel mode leave the interrupt state (enabled, pending, saved_pc,
\* saved_regs_addr) equal to what it was before the EI, for every prior state.
C24_EiDiRestoresInterruptState == EiThenDi => IntState(vm) = ev.prev.before

\* C24, amended: after EI and then DI executed in consecutive cycles in kernel
\* mode, enabled is false whatever it was before.  If no interrupt 0..254 was
\* pending before the EI, neither cycle dispatches and pending, saved_pc and
\* saved_regs_addr are what they were, so the interrupt state equals the prior
\* one exactly when enabled was false before.  If an interrupt 0..254 was
\* pending before the EI, one is dispatched at the start of the EI cycle
\* (enabled before) or of the DI cycle (not enabled before), which clears its
\* pending bit.
C24_EiDiDisablesAndKeepsIfNothingPending ==
    EiThenDi
    => /\ ~vm.enabled
       /\ Scanned(ev.prev.before.pending) = {}
          => /\ ev.prev.disp = -1 /\ ev.disp = -1
             /\ [IntState(vm) EXCEPT !.enabled = ev.prev.before.enabled] = ev.prev.before
       /\ Scanned(ev.prev.before.pending) # {}
          => /\ IF ev.prev.before.enabled
                THEN ev.prev.disp = Lowest(Scanned(ev.prev.before.pending))
                ELSE ev.prev.disp = -1
                     /\ ev.disp = Lowest(Scanned(ev.prev.before.pending))
             /\ vm.pending # ev.prev.before.pending

\* EI; DI from a state with interrupts disabled and only bit 255 pending: the
\* interrupt state is what it was
C24_EiDiFromDisabled ==
    /\ EiThenDi
    /\ ~ev.prev.before.enabled /\ ev.prev.before.pending = {255}
    /\ IntState(vm) = ev.prev.before

(***************************************************************************)
(* C25.  Encoding and decoding are inverse                                 *)
(***************************************************************************)
\* C25: decoding an 8-byte word as the step does and encoding the five fields
\* with c32_encode_instruction gives the word back byte for byte, and decoding
\* the encoding of an instruction record gives the same five fields back.
C25_EncodeDecodeInverse ==
    /\ ev.call = "decode_encode" => ev.out = ev.word
    /\ ev.call = "encode_decode" => ev.out = ev.rec

\* a word whose four immediate bytes differ has been decoded to 0x12345678
\* and encoded back
C25_DistinctImmediateBytes ==
    /\ ev.call = "decode_encode"
    /\ ev.word = <<255, 5, 0, 255, 120, 86, 52, 18>>
    /\ ev.rec.immediate = U32(4660, 22136)
    /\ ev.out = ev.word

(***************************************************************************)
(* C26..C30.  The assembler                                                *)
(***************************************************************************)
\* the instruction lines of a source, in order
RECURSIVE InstrLines(_, _)
InstrLines(src, i) ==
    IF i > Len(src) THEN <<>>
    ELSE IF src[i].mn = "" THEN InstrLines(src, i + 1)
    ELSE <<src[i]>> \o InstrLines(src, i + 1)

\* the assembly address of the first line labelled name: 8 bytes for each
\* instruction line before it
LabelAddress(src, name) ==
    8 * Len(InstrLines(SubSeq(src, 1, (CHOOSE i \in 1..Len(src) :
                                           /\ src[i].label = name
                                           /\ \A k \in 1..(i - 1) : src[k].label # name) - 1),
                       1))

Defines(src, name) == \E i \in 1..Len(src) : src[i].label = name

\* the value an operand written as a register or a number stands for
ArgValue(arg) ==
    IF arg.kind = "reg" THEN arg.n
    ELSE IF arg.v < 0 THEN Neg32(W(0 - arg.v)) ELSE W(arg.v)

\* the fields that hold the operands of a mnemonic, in source order
OperandFields(mn) ==
    IF parse_opcode(mn) \in AsmRType THEN <<"rd", "rs", "rt">>
    ELSE IF parse_opcode(mn) \in AsmIType \cup AsmLoadStore THEN <<"rt", "rs", "immediate">>
    ELSE IF mn = "LUI" THEN <<"rt", "immediate">>
    ELSE IF parse_opcode(mn) \in AsmShifts THEN <<"rd", "rt", "immediate">>
    ELSE IF parse_opcode(mn) \in AsmBranch2 THEN <<"rs", "rt", "immediate">>
    ELSE IF parse_opcode(mn) \in AsmBranch1 THEN <<"rs", "immediate">>
    ELSE IF mn \in {"J", "JAL", "RAISE"} THEN <<"immediate">>
    ELSE IF mn = "JR" THEN <<"rs">>
    ELSE IF mn = "JALR" THEN <<"rd", "rs">>
    ELSE IF mn \in {"GETPC", "GETMODE"} THEN <<"rd">>
    ELSE IF mn = "SET_PTBR" THEN <<"rd", "rt">>
    ELSE <<>>

\* the source is one instruction whose operands are registers and numbers
OneInstruction(src) ==
    /\ Len(src) = 1 /\ src[1].label = <<>>
    /\ parse_opcode(src[1].mn) >= 0
    /\ Len(src[1].args) = Len(OperandFields(src[1].mn))
    /\ \A k \in 1..Len(src[1].args) : src[1].args[k].kind \in {"reg", "num"}

\* C26: for every mnemonic and every operand list of valid registers and
\* numbers, the 8 bytes the assembler emits decode to the operands written in
\* the source, each in the field the instruction uses.
C26_AssembledOperandsDecodeBack ==
    (ev.call = "assemble" /\ OneInstruction(ev.asm.src))
    => /\ ev.asm.ret = 0 /\ ev.asm.written /\ Len(ev.asm.output) = 8
       /\ Decode(ev.asm.output).opcode = parse_opcode(ev.asm.src[1].mn)
       /\ \A k \in 1..Len(ev.asm.src[1].args) :
            Decode(ev.asm.output)[OperandFields(ev.asm.src[1].mn)[k]]
                = ArgValue(ev.asm.src[1].args[k])

BranchNames == {"BEQ", "BNE", "BLEZ", "BGTZ", "BLTZ", "BGEZ"}

\* name is the label of exactly one line
DefinedOnce(src, name) ==
    Cardinality({i \in 1..Len(src) : src[i].label = name}) = 1

\* the step from this state fetches inside the loaded image
InImage ==
    /\ ev.call \in {"load", "step"}
    /\ Small(vm.pc) /\ Val(vm.pc) >= ev.asm.base
    /\ (Val(vm.pc) - ev.asm.base) % 8 = 0
    /\ (Val(vm.pc) - ev.asm.base) \div 8 < Len(InstrLines(ev.asm.src, 1))

\* the source line of the instruction at PC
LineAtPC == InstrLines(ev.asm.src, 1)[((Val(vm.pc) - ev.asm.base) \div 8) + 1]

\* the last operand of the line, a label defined once in the source
TargetsLabel(line) ==
    /\ Len(line.args) > 0
    /\ line.args[Len(line.args)].kind = "label"
    /\ DefinedOnce(ev.asm.src, line.args[Len(line.args)].name)

TargetAddress(line) == LabelAddress(ev.asm.src, line.args[Len(line.args)].name)

\* the branch condition on the register values a (rs) and b (rt)
TakenRef(mn, a, b) ==
    CASE mn = "BEQ" -> a = b
      [] mn = "BNE" -> a # b
      [] mn = "BLEZ" -> Neg(a) \/ a = W(0)
      [] mn = "BGTZ" -> ~Neg(a) /\ a # W(0)
      [] mn = "BLTZ" -> Neg(a)
      [] mn = "BGEZ" -> ~Neg(a)

\* C27: in an image produced by the assembler and loaded at any 8-aligned
\* base, a taken branch whose target operand is a label, defined before or
\* after it, sets PC to base + the label's assembly address, and an untaken
\* one leaves PC at the instruction after the branch; the next step fetches
\* there.
C27_BranchToLabel ==
    [][(StepTaken /\ InImage /\ ev'.exec /\ ev'.disp = -1
        /\ LineAtPC.mn \in BranchNames /\ TargetsLabel(LineAtPC))
       => /\ ev'.fetch_pc = vm.pc
          /\ vm'.pc = IF TakenRef(LineAtPC.mn, vm.regs[LineAtPC.args[1].n],
                                  IF Len(LineAtPC.args) = 3
                                  THEN vm.regs[LineAtPC.args[2].n] ELSE W(0))
                      THEN W(ev.asm.base + TargetAddress(LineAtPC))
                      ELSE Add32(vm.pc, W(8))]_vars

\* BLTZ R1, back has been taken in the image loaded at 24: PC is back at the
\* labelled instruction, 8 bytes into the image
C27_BackwardBranchTaken ==
    /\ ev.call = "step" /\ ev.exec /\ ev.inst[1] = OP_BLTZ
    /\ ev.asm.base = 24 /\ ev.fetch_pc = W(24 + 16)
    /\ vm.pc = W(24 + 8)
    /\ vm.regs[2] = W(1)

\* C28: in an image produced by the assembler and loaded at 0x1000, J label
\* and JAL label, forward or backward, set PC to 0x1000 + the label's assembly
\* address; JAL leaves in R31 the load address of the instruction after it,
\* and the callee's JR R31 resumes there.
C28_JumpToLabel ==
    [][(StepTaken /\ InImage /\ ev.asm.base = LoadAddr /\ ev'.exec /\ ev'.disp = -1)
       => /\ (LineAtPC.mn \in {"J", "JAL"} /\ TargetsLabel(LineAtPC))
             => vm'.pc = W(LoadAddr + TargetAddress(LineAtPC))
          /\ (LineAtPC.mn = "JAL" /\ TargetsLabel(LineAtPC))
             => vm'.regs[31] = Add32(vm.pc, W(8))
          /\ (LineAtPC.mn = "JR" /\ LineAtPC.args[1].n = 31)
             => \A j \in 1..Len(InstrLines(ev.asm.src, 1)) :
                    InstrLines(ev.asm.src, 1)[j].mn = "JAL"
                    => vm'.pc = W(LoadAddr + 8 * j)]_vars

\* the callee entered by the backward JAL fn at 0x1000 + 24 has run and its
\* JR R31 has put PC at 0x1000 + 32, the instruction after the JAL
C28_ReturnedAfterJal ==
    /\ ev.call = "step" /\ ev.exec /\ ev.inst[1] = OP_JR
    /\ ev.asm.base = LoadAddr
    /\ vm.regs[31] = W(LoadAddr + 32) /\ vm.pc = W(LoadAddr + 32)
    /\ vm.regs[2] = W(5)

\* C29: a source that defines a label twice is rejected in pass 1: an error
\* is counted, pass 2 is not run, c32_asm_assemble_file returns failure and no
\* output is written.
C29_DuplicateLabelRejected ==
    (ev.call = "assemble"
     /\ \E i, k \in 1..Len(ev.asm.src) :
            i < k /\ ev.asm.src[i].label # <<>> /\ ev.asm.src[i].label = ev.asm.src[k].label)
    => ev.asm.ret = -1 /\ ev.asm.passes = 1 /\ ~ev.asm.written

\* C30: a branch, J or JAL whose target operand is a name that no line
\* defines is a pass-2 error: c32_asm_assemble_file returns failure and no
\* output is written.
C30_UndefinedLabelRejected ==
    (ev.call = "assemble"
     /\ \E i \in 1..Len(ev.asm.src) :
            /\ ev.asm.src[i].mn \in BranchNames \cup {"J", "JAL"}
            /\ Len(ev.asm.src[i].args) > 0
            /\ ev.asm.src[i].args[Len(ev.asm.src[i].args)].kind = "label"
            /\ ~Defines(ev.asm.src, ev.asm.src[i].args[Len(ev.asm.src[i].args)].name))
    => ev.asm.ret = -1 /\ ~ev.asm.written

\* the register fields of the k-th instruction of an output: bytes 1, 2, 3
RegFields(output, k) == {output[8 * k + 2], output[8 * k + 3], output[8 * k + 4]}

\* the source has an operand, in a register position, that names no register
HasBadRegister(src) ==
    \E i \in 1..Len(src) : \E k \in 1..Len(src[i].args) : src[i].args[k].kind = "badreg"

\* C31 as stated: every instruction the assembler emits has rs, rt and rd in
\* 0..31; a source with a register operand that names no register (R32, r99,
\* x5, foo) makes the assembly fail and no output is written.
C31_InvalidRegisterRejected ==
    ev.call = "assemble"
    => /\ \A k \in 0..(Len(ev.asm.output) \div 8 - 1) :
             RegFields(ev.asm.output, k) \subseteq 0..31
       /\ HasBadRegister(ev.asm.src) => (ev.asm.ret = -1 /\ ~ev.asm.written)

\* the lines of a source that c32_asm_assemble_line rejects in either pass: a
\* label of MAX_LABEL_LEN characters or more, an unknown mnemonic, fewer
\* operands than the mnemonic's group reads
FailingLines(src) ==
    {i \in 1..Len(src) :
        \/ Len(src[i].label) >= MAX_LABEL_LEN
        \/ /\ src[i].mn # ""
           /\ \/ parse_opcode(src[i].mn) < 0
              \/ /\ src[i].mn \notin {"RAISE", "GETPC", "GETMODE", "SET_PTBR"}
                 /\ Len(src[i].args) < Len(OperandFields(src[i].mn))}

\* the labels of the lines from line i on whose label is short enough to add
LabelsFrom(src, i) ==
    {src[k].label : k \in {j \in i..Len(src) : /\ src[j].label # <<>>
                                                /\ Len(src[j].label) < MAX_LABEL_LEN}}

InTable(symbols, name) == \E k \in 1..Len(symbols) : symbols[k].name = name

SaveTestSound(m) ==
    Fits(Sub32(m.regs[29], W(128)), 128) => InBounds(Sub32(m.regs[29], W(128)), 128)

\* the handler address the dispatch of n reads: the word at n * 8
HandlerOf(memory, n) == c32_read_word(memory, n * 8)

\* the register save at addr does not cover the vector table entry of n
SlotKept(addr, n) ==
    \/ ~InBounds(addr, 128)
    \/ Val(addr) >= n * 8 + 4
    \/ Val(addr) + 128 <= n * 8

C34_SaveExactlyWhenRegionInside ==
    (ev.call = "step" /\ ev.disp >= 0)
    => /\ [phys |-> vm.saved_regs_addr, n |-> 128, kind |-> "save"] \in ev.acc
          <=> InBounds(vm.saved_regs_addr, 128)
       /\ \A a \in ev.acc : a.kind = "save" => InBounds(a.phys, a.n)

\* C35 as stated: when the 8 bytes at the translated PC are not all inside the
\* memory (every 8-aligned PC up to 0xFFFFFFF8), the step sets running =
\* false and returns failure; it reads no byte outside the memory, leaves PC
\* where it was and executes nothing.
C35_FetchOutsideMemoryRefused ==
    (/\ ev.call = "step"
     /\ \E t \in ev.xl : t.x /\ t.phys # FAULT /\ ~InBounds(t.phys, 8))
    => /\ ~vm.running /\ ev.ret = -1 /\ ~ev.exec
       /\ vm.pc = ev.fetch_pc
       /\ \A a \in ev.acc : a.kind # "fetch"
       /\ "oobread" \notin ev.ub

\* C36: no instruction is fetched or executed at a PC that is not a multiple
\* of 8.  A step whose PC, after the dispatcher has run (a handler address
\* read from the vector table included), has PC & 7 # 0 sets pending bit 2
\* and returns failure: nothing is translated, fetched or executed, and PC,
\* registers, memory, running, the mode and the paging fields are what the
\* dispatcher left.
C36_MisalignedPCNeverFetched ==
    [][StepTaken
        => \E ci \in {check_interrupts([vm |-> vm, ev |-> EvOf("step")])} :
            /\ ev'.exec => (ev'.fetch_pc[2] % 8 = 0 /\ ci.c.vm.pc[2] % 8 = 0)
            /\ \A a \in ev'.acc : a.kind = "fetch" => a.phys[2] % 8 = 0
            /\ (ci.ret >= 0 /\ ci.c.vm.pc[2] % 8 # 0)
               => /\ vm' = [ci.c.vm EXCEPT !.pending = @ \cup {2}]
                  /\ ev'.ret = -1 /\ ~ev'.exec /\ ev'.raised = {2}
                  /\ ev'.xl = {} /\ \A a \in ev'.acc : a.kind = "save"]_vars

\* C36, its case: interrupt 9 was dispatched, its vector holds an address
\* that is 4 modulo 8, and the step stopped there with bit 2 pending.
C36_MisalignedHandlerRefused ==
    /\ ev.call = "step" /\ ev.disp = 9 /\ ~ev.exec /\ ev.ret = -1
    /\ vm.pc = W(HandlerAddr + 4) /\ 2 \in vm.pending /\ 9 \notin vm.pending
    /\ vm.kernel_mode /\ ~vm.enabled /\ vm.running /\ vm.regs[4] = W(9)

\* the fields only kernel-mode code may change
Protected(m) ==
    [kernel_mode |-> m.kernel_mode, enabled |-> m.enabled,
     paging_enabled |-> m.paging_enabled, page_table_base |-> m.page_table_base,
     num_pages |-> m.num_pages]

\* C37 as stated: kernel_mode goes from false to true only in a step that
\* dispatches an interrupt (or by init/reset): an instruction executed in
\* user mode leaves kernel_mode false and leaves enabled, paging_enabled,
\* page_table_base and num_pages as they were.
C37_UserModeKeepsProtectedState ==
    [][/\ (~vm.kernel_mode /\ vm'.kernel_mode)
          => (ev'.call = "reset" \/ (ev'.call = "step" /\ ev'.disp >= 0))
       /\ (StepTaken /\ ev'.exec /\ ~ev'.km_exec)
          => Protected(vm') = Protected(vm)]_vars

\* C38: a dispatch whose save region lies inside the memory, followed at once
\* by IRET as the handler's first instruction, leaves PC and every register
\* but R29 as they were before the dispatch (R4 included), R29 128 lower,
\* enabled true and kernel_mode true, whatever the mode before the dispatch.
C38_DispatchThenIretRestores ==
    [][(/\ StepTaken /\ ev'.disp >= 0 /\ ev'.exec /\ ev'.inst[1] = OP_IRET
        /\ InBounds(Sub32(vm.regs[29], W(128)), 128))
        => /\ vm'.pc = vm.pc
           /\ \A i \in (0..31) \ {29} : vm'.regs[i] = vm.regs[i]
           /\ vm'.regs[29] = Sub32(vm.regs[29], W(128))
           /\ vm'.enabled /\ vm'.kernel_mode
           /\ ev'.disp \notin vm'.pending]_vars

\* C38, its case: interrupt 3 was taken in user mode with paging on (the
\* first step after the boot sequence that enters user mode with R29 =
\* 0x8000) and the handler's IRET put back PC and R4 = 0, R29 reading
\* 0x8000 - 128, in kernel mode.
C38_UserInterruptReturned ==
    /\ ev.call = "step" /\ nsteps = 1 /\ ev.disp = 3 /\ IretExecuted(ev)
    /\ vm.paging_enabled /\ vm.kernel_mode /\ vm.enabled
    /\ vm.regs[4] = W(0) /\ vm.regs[29] = W(32768 - 128)
    /\ vm.pc = vm.saved_pc /\ vm.pc[2] % 8 = 0 /\ vm.pc # W(HandlerAddr + 8)

\* C39: interrupt return is single-level.  saved_pc and saved_regs_addr are
\* written by every dispatch (the PC and R29 - 128 of that dispatch) and by
\* nothing else, and IRET sets PC to saved_pc; so after a dispatch inside a
\* handler, the inner IRET and the outer IRET that follows it both set PC to
\* the PC the second dispatch interrupted, whatever saved_pc held before it.
C39_SingleLevelReturn ==
    [][StepTaken
        => /\ ev'.disp >= 0
              => /\ vm'.saved_pc = vm.pc
                 /\ vm'.saved_regs_addr = Sub32(vm.regs[29], W(128))
           /\ ev'.disp = -1
              => /\ vm'.saved_pc = vm.saved_pc
                 /\ vm'.saved_regs_addr = vm.saved_regs_addr
           /\ IretExecuted(ev') => vm'.pc = vm'.saved_pc
           /\ (/\ ev.call = "step" /\ ev.disp >= 0 /\ IretExecuted(ev)
               /\ ev'.disp = -1 /\ IretExecuted(ev'))
              => (vm'.pc = vm.pc /\ vm'.pc = vm.saved_pc)]_vars

\* C39, its case: inside the handler of interrupt 3 (entered from 0x1020,
\* EI executed) interrupt 7 was dispatched at 0x2008; its IRET and then the
\* IRET of the outer handler both returned to 0x2008, not to 0x1020.
C39_OuterIretReturnsToInner ==
    /\ ev.call = "step" /\ nsteps = 2 /\ ev.disp = -1 /\ IretExecuted(ev)
    /\ ev.prev.disp = 7 /\ IretExecuted(ev.prev)
    /\ ev.prev.before.saved_pc = W(LoadAddr + 32)
    /\ ev.before.saved_pc = W(HandlerAddr + 8)
    /\ vm.pc = W(HandlerAddr + 8) /\ vm.saved_pc = W(HandlerAddr + 8)

====
